---- MODULE Spec2Model ----
(***************************************************************************)
(* Viseme playback scheduling and turn control of the talking character.   *)
(*                                                                         *)
(* Time is in milliseconds.  A pending JavaScript timer is a record that   *)
(* holds its remaining delay; the event loop is single-threaded, so every  *)
(* handler and every timer callback is one atomic action.                  *)
(***************************************************************************)
EXTENDS Integers, Sequences, FiniteSets, TLC

VARIABLES
    timers,     \* pending setTimeout timers of the page
    nextId,     \* next timer id handed out by setTimeout
    calls,      \* invocations of the viseme callback, oldest first
    handle,     \* closure of playVisemeSequence (lib/elevenlabs-alignment)
    stopCalls,  \* number of stop() calls made on that handle
    cleanup,    \* closure of playVisemeSequence (lib/viseme-mapping)
    lastProcessedMessageRef,    \* useElevenLabsConversation: last AI text processed
    visemeTimeoutsRef,          \* useElevenLabsConversation: tracked timer ids
    connectionAttemptRef,       \* useElevenLabsConversation: a start is in progress
    windowVisemeCallback,       \* window.visemeCallback is set
    fetches,    \* alignment requests in flight, one per suspended onMessage
    obs,        \* what an observer of useElevenLabsConversation has seen
    visemeCallbackRef,  \* useElevenLabsSimple: visemeCallbackRef.current is set
    aligns,     \* generatePreciseVisemes calls suspended on the alignment request
    turns,      \* agent responses handled by useElevenLabsSimple so far
    invoked,    \* the method of the converters called and its argument
    result,     \* what that call returned or that it threw, once it has
    alignSocket,    \* one getAlignmentData call: its socket, promise and closure
    aiHook,         \* useElevenLabsConversationalAI: socket, flags, reconnect timer
    voiceAgent,     \* useElevenLabsVoiceAgent: isSpeaking of the state and of the ref
    processor,      \* ForcedAlignmentProcessor: queue and isProcessing
    audioAnalyzer   \* AudioVisemeAnalyzer: lastViseme, animation frame, consumer

commonVars == <<timers, nextId, calls>>
schedVars == <<handle, stopCalls>>
convVars == <<lastProcessedMessageRef, visemeTimeoutsRef, connectionAttemptRef,
              windowVisemeCallback, fetches, obs>>
simpleVars == <<visemeCallbackRef, aligns, turns>>
alignerVars == <<invoked, result>>
lateVars == <<alignSocket, aiHook, voiceAgent, processor, audioAnalyzer>>
vars == <<timers, nextId, calls, handle, stopCalls, cleanup,
          lastProcessedMessageRef, visemeTimeoutsRef, connectionAttemptRef,
          windowVisemeCallback, fetches, obs, visemeCallbackRef, aligns, turns,
          invoked, result, alignSocket, aiHook, voiceAgent, processor,
          audioAnalyzer>>

(***************************************************************************)
(* Bounds of the model.                                                    *)
(***************************************************************************)
MaxEvents == 2      \* longest timeline handed to a scheduler
MaxCode == 1        \* viseme codes drawn for events are 0..MaxCode
UnitMs == 100       \* granularity of event times and of the clock
MaxStops == 2       \* stop() calls made on one handle

(***************************************************************************)
(* Program constants.                                                      *)
(***************************************************************************)
Neutral == 0            \* the neutral viseme
ResetBufferMs == 100    \* playVisemeSequence: "+ 100; // Small buffer"

Codes == 0..MaxCode
Speeds == {1, 2}
Durations == {UnitMs, 2 * UnitMs}

(***************************************************************************)
(* Timelines as the alignment endpoint returns them: events in stored      *)
(* order, each starting where the previous one ends.                       *)
(***************************************************************************)
Event(c, s, d) == [viseme |-> c, start |-> s, end |-> s + d]

RECURSIVE TimelinesFrom(_, _)
TimelinesFrom(s, n) ==
    IF n = 0 THEN {<<>>}
    ELSE {<<>>} \cup
         UNION {{<<Event(c, s, d)>> \o rest : rest \in TimelinesFrom(s + d, n - 1)} :
                    c \in Codes, d \in Durations}

Timelines == TimelinesFrom(0, MaxEvents) \cup TimelinesFrom(UnitMs, MaxEvents)

Last(seq) == seq[Len(seq)]

(***************************************************************************)
(* The timer queue: setTimeout, clearTimeout, firing, passage of time.     *)
(***************************************************************************)
Timer(id, delay, code, start, tl, kind) ==
    [id |-> id, rem |-> IF delay < 0 THEN 0 ELSE delay, viseme |-> code,
     start |-> start, tl |-> tl, kind |-> kind]

ClearNone(pending, ids) == pending

ClearTimeouts(pending, ids) == {t \in pending : t.id \notin ids}

Due == {t \in timers : t.rem = 0}

NextDue == CHOOSE t \in Due : \A u \in Due : t.id <= u.id

MinRem == CHOOSE r \in {t.rem : t \in timers} : \A t \in timers : r <= t.rem

Call(code, by, tl, start) == [code |-> code, by |-> by, tl |-> tl, start |-> start]

Range(seq) == {seq[i] : i \in 1..Len(seq)}

\* No timer is due: time passes until the next one is.
Tick ==
    /\ timers # {}
    /\ Due = {}
    /\ timers' = {[t EXCEPT !.rem = t.rem - MinRem] : t \in timers}
    /\ UNCHANGED <<nextId, calls, schedVars, cleanup, convVars, simpleVars, alignerVars, lateVars>>


(***************************************************************************)
(* State of each component after construction.                             *)
(***************************************************************************)
SchedIdle ==
    /\ handle = [state |-> "none", visemes |-> <<>>, timeouts |-> <<>>]
    /\ stopCalls = 0

AnalyzerIdle == cleanup = [state |-> "none", events |-> <<>>, timeouts |-> <<>>]

ConvIdle ==
    /\ lastProcessedMessageRef = <<>>
    /\ visemeTimeoutsRef = {}
    /\ connectionAttemptRef = FALSE
    /\ fetches = {}
    /\ obs = [turn |-> 0, turnText |-> <<>>, failed |-> {}, armedFor |-> {},
              startsInFlight |-> 0, redelivered |-> FALSE, ignored |-> FALSE,
              skipped |-> FALSE]

SimpleIdle ==
    /\ aligns = {}
    /\ turns = 0

AlignerIdle ==
    /\ invoked = [fn |-> "none", arg |-> <<>>]
    /\ result = [done |-> FALSE, threw |-> FALSE, value |-> <<>>]

\* No getAlignmentData call was made: there is no socket and no promise.
SocketIdle ==
    alignSocket = [readyState |-> "NONE", alignmentData |-> 0, normalizedAlignment |-> 0,
                   promise |-> "none", value |-> 0, timeout |-> FALSE,
                   received |-> 0, event |-> "none", latest |-> 0]

\* useState of useElevenLabsConversationalAI on the first render, and its refs.
InitialAiState == [isConnected |-> FALSE, isListening |-> FALSE, isProcessing |-> FALSE]

\* connecting counts the connect calls awaiting the signed URL, connects all
\* connect calls; closes and fired are what an observer has seen.
AiHookIdle ==
    aiHook = [state |-> InitialAiState, websocket |-> "null", connecting |-> 0,
              connects |-> 0, closes |-> {}, fired |-> {}]

\* useElevenLabsVoiceAgent (alignment variant) on the first render.  fetching
\* counts the generatePreciseVisemes calls awaiting the alignment, tracked
\* the reset timers in currentVisemeTimeouts, untracked those of the fallback;
\* handled, previous and last are what an observer has seen.
VoiceAgentIdle ==
    voiceAgent = [isSpeaking |-> FALSE, isSpeakingRef |-> FALSE,
                  visemeCallbackRef |-> FALSE, fetching |-> 0, tracked |-> 0,
                  untracked |-> 0, handled |-> 0, previous |-> "none",
                  last |-> "none"]

\* "private alignmentQueue: AlignmentData[] = []; private isProcessing = false".
\* last is the method called last, pending the length of the queue when it
\* was called, input the entry it processed and returned what it returned.
ProcessorIdle ==
    processor = [alignmentQueue |-> <<>>, isProcessing |-> FALSE, last |-> "none",
                 pending |-> 0, input |-> <<>>, returned |-> <<>>]

\* The fields of AudioVisemeAnalyzer after construction.  pending counts the
\* requested animation frames not yet run; animationFrame is "null",
\* "pending" (the frame requested last, still to run) or "stale" (the id of
\* a frame that has run).  notified is <<>> before the first call of
\* onVisemeChange and <<v>> after a call with v; repeated says that the
\* call before it carried the same v; last is the method that ran last.
AudioAnalyzerIdle ==
    audioAnalyzer = [isAnalyzing |-> FALSE, analyser |-> FALSE,
                     animationFrame |-> "null", pending |-> 0,
                     silenceCounter |-> 0, lastViseme |-> 0,
                     notified |-> <<>>, repeated |-> FALSE, last |-> "none"]

LateIdle ==
    /\ SocketIdle
    /\ AiHookIdle
    /\ VoiceAgentIdle
    /\ ProcessorIdle
    /\ AudioAnalyzerIdle

(***************************************************************************)
(* playVisemeSequence of lib/elevenlabs-alignment and its stop handle.     *)
(***************************************************************************)
DelayByDuration(v, speed) == (v.end - v.start) \div speed

VisemeDelay(v, speed) == v.start \div speed

ResetDelay(visemes, speed) == (Last(visemes).end \div speed) + ResetBufferMs

VisemeTimers(visemes, speed, tl) ==
    {Timer(nextId + i - 1, VisemeDelay(visemes[i], speed), visemes[i].viseme,
           visemes[i].start, tl, "viseme") : i \in 1..Len(visemes)}

ResetTimers(visemes, speed, tl) ==
    IF Len(visemes) > 0
    THEN {Timer(nextId + Len(visemes), ResetDelay(visemes, speed), Neutral, 0, tl, "reset")}
    ELSE {}

PlayVisemeSequence(visemes, speed) ==
    /\ handle.state = "none"
    /\ LET armed == VisemeTimers(visemes, speed, 1) \cup ResetTimers(visemes, speed, 1)
       IN /\ timers' = timers \cup armed
          /\ nextId' = nextId + Cardinality(armed)
          /\ handle' = [state |-> "live", visemes |-> visemes,
                        timeouts |-> [i \in 1..Cardinality(armed) |-> nextId + i - 1]]
    /\ UNCHANGED <<calls, stopCalls, cleanup, convVars, simpleVars, alignerVars, lateVars>>

HandleStop ==
    /\ handle.state = "live"
    /\ stopCalls < MaxStops
    /\ timers' = ClearTimeouts(timers, Range(handle.timeouts))
    /\ calls' = Append(calls, Call(Neutral, "stop", 1, 0))
    /\ stopCalls' = stopCalls + 1
    /\ UNCHANGED <<nextId, handle, cleanup, convVars, simpleVars, alignerVars, lateVars>>

\* A due timer of playVisemeSequence runs its callback.
FireSched ==
    /\ Due # {}
    /\ LET t == NextDue
       IN /\ timers' = timers \ {t}
          /\ calls' = Append(calls, Call(t.viseme, t.kind, t.tl, t.start))
    /\ UNCHANGED <<nextId, handle, stopCalls, cleanup, convVars, simpleVars, alignerVars, lateVars>>

InitSched ==
    /\ timers = {}
    /\ nextId = 0
    /\ calls = <<>>
    /\ SchedIdle
    /\ AnalyzerIdle
    /\ ConvIdle
    /\ windowVisemeCallback = FALSE
    /\ SimpleIdle
    /\ visemeCallbackRef = FALSE
    /\ AlignerIdle
    /\ LateIdle

NextSched ==
    \/ \E v \in Timelines, s \in Speeds : PlayVisemeSequence(v, s)
    \/ HandleStop
    \/ FireSched
    \/ Tick

SpecSched == InitSched /\ [][NextSched]_vars

(***************************************************************************)
(* Properties of playVisemeSequence and its stop handle.                   *)
(***************************************************************************)
StopIdx == {i \in DOMAIN calls : calls[i].by = "stop"}
ResetIdx == {i \in DOMAIN calls : calls[i].by = "reset"}
VisemeIdx == {i \in DOMAIN calls : calls[i].by = "viseme"}

\* C2: a stop() invokes onVisemeChange(0) exactly once, synchronously, and no
\* viseme callback with a non-zero code of that timeline fires after it.
C2_StopSilencesTimeline ==
    /\ Cardinality(StopIdx) = stopCalls
    /\ \A i \in StopIdx : calls[i].code = Neutral
    /\ \A i \in StopIdx : \A j \in VisemeIdx : j > i => calls[j].code = Neutral

\* stop() came after the first of two events fired, while the second, with a
\* non-zero code, and the reset were still pending; nothing is pending now.
C2_Witness ==
    /\ stopCalls = 1
    /\ Len(handle.visemes) = 2
    /\ handle.visemes[2].viseme # Neutral
    /\ Cardinality(VisemeIdx) = 1
    /\ ResetIdx = {}
    /\ timers = {}

\* C3: calling stop() twice on one handle gives exactly one neutral reset by
\* stop() in total; the second call is a no-operation.
C3_SecondStopIsNoOp == stopCalls = 2 => Cardinality(StopIdx) = 1

\* C4: once the handle is Completed (its reset timer fired) or Cancelled
\* (stop() was called), it causes no further onVisemeChange invocation: the
\* call that made it terminal is the last one, so it is never both.
C4_TerminalStatesAbsorbing == \A i \in StopIdx \cup ResetIdx : i = Len(calls)

\* C5: every timeline handed to playVisemeSequence, the empty one included,
\* has a terminal neutral reset scheduled until it fires or the handle is
\* cancelled.
C5_ResetAlwaysScheduled ==
    (handle.state = "live" /\ stopCalls = 0) =>
        \/ \E t \in timers : t.kind = "reset"
        \/ ResetIdx # {}

\* C7: the viseme callbacks of one timeline fire in non-decreasing order of
\* the events' start times.
C7_FireInStartOrder ==
    \A i \in VisemeIdx : \A j \in VisemeIdx :
        (i < j /\ calls[i].tl = calls[j].tl) => calls[i].start <= calls[j].start

\* Two events with different start times have both fired.
C7_Witness ==
    \E i \in VisemeIdx : \E j \in VisemeIdx :
        i < j /\ calls[i].tl = calls[j].tl /\ calls[i].start < calls[j].start


(***************************************************************************)
(* playVisemeSequence of lib/viseme-mapping: event times are in seconds,   *)
(* delays are measured against the audio start time.                       *)
(***************************************************************************)
MaxSec == 2         \* latest event start, in seconds

SecMs == 1000       \* "event.start * 1000"

RECURSIVE SecTimelinesFrom(_, _)
SecTimelinesFrom(s, n) ==
    IF n = 0 \/ s > MaxSec THEN {<<>>}
    ELSE SecTimelinesFrom(s + 1, n) \cup
         UNION {{<<Event(c, s, 1)>> \o rest : rest \in SecTimelinesFrom(s + 1, n - 1)} :
                    c \in Codes}

\* Date.now() - audioStartTime at the time of the call.
Elapsed == {0, UnitMs, SecMs}

EventDelay(event, elapsed) == (event.start * SecMs) - elapsed

ArmsTimer(delay) == delay > 0

\* The events that get a timer, in stored order.
RECURSIVE Scheduled(_, _)
Scheduled(events, elapsed) ==
    IF events = <<>> THEN <<>>
    ELSE IF ArmsTimer(EventDelay(Head(events), elapsed))
         THEN <<Head(events)>> \o Scheduled(Tail(events), elapsed)
         ELSE Scheduled(Tail(events), elapsed)

PlayVisemeSequenceAt(events, elapsed) ==
    /\ cleanup.state = "none"
    /\ LET kept == Scheduled(events, elapsed)
           armed == {Timer(nextId + i - 1, EventDelay(kept[i], elapsed), kept[i].viseme,
                           kept[i].start, 1, "viseme") : i \in 1..Len(kept)}
       IN /\ timers' = timers \cup armed
          /\ nextId' = nextId + Len(kept)
          /\ cleanup' = [state |-> "live", events |-> events,
                         timeouts |-> [i \in 1..Len(kept) |-> nextId + i - 1]]
    /\ UNCHANGED <<calls, schedVars, convVars, simpleVars, alignerVars, lateVars>>

\* The cleanup function returned by playVisemeSequence.
RunCleanup ==
    /\ cleanup.state = "live"
    /\ timers' = ClearTimeouts(timers, Range(cleanup.timeouts))
    /\ cleanup' = [cleanup EXCEPT !.state = "cleaned"]
    /\ UNCHANGED <<nextId, calls, schedVars, convVars, simpleVars, alignerVars, lateVars>>

InitAnalyzer ==
    /\ timers = {}
    /\ nextId = 0
    /\ calls = <<>>
    /\ SchedIdle
    /\ AnalyzerIdle
    /\ ConvIdle
    /\ windowVisemeCallback = FALSE
    /\ SimpleIdle
    /\ visemeCallbackRef = FALSE
    /\ AlignerIdle
    /\ LateIdle

NextAnalyzer ==
    \/ \E ev \in SecTimelinesFrom(0, MaxEvents), el \in Elapsed : PlayVisemeSequenceAt(ev, el)
    \/ RunCleanup
    \/ FireSched
    \/ Tick

SpecAnalyzer == InitAnalyzer /\ [][NextAnalyzer]_vars

\* C6: an event whose delay is zero or negative is delivered at once instead
\* of being skipped: while the sequence is not cleaned up, every event of the
\* timeline has been delivered or still has its timer.
C6_NoEventLost ==
    cleanup.state = "live" =>
        \A k \in DOMAIN cleanup.events :
            \/ \E t \in timers : t.kind = "viseme" /\ t.start = cleanup.events[k].start
            \/ \E i \in VisemeIdx : calls[i].start = cleanup.events[k].start

(***************************************************************************)
(* useElevenLabsConversation: onMessage, the alignment request it awaits,  *)
(* clearAllVisemeTimeouts, startConversation and stopConversation.         *)
(* A text is a sequence of characters.  obs is kept for the properties:    *)
(* turn numbers the AI messages processed, turnText is the text of the     *)
(* last one processed in the running conversation, failed and armedFor     *)
(* hold the turns whose request failed and whose timeline was armed,       *)
(* redelivered tells that the text of turnText arrived again while its     *)
(* timeline had timers pending.                                            *)
(***************************************************************************)
MaxTurns == 2           \* AI messages processed in one run
MaxConvEvents == 1      \* longest timeline the alignment request returns
MaxStartsInFlight == 2  \* startSession calls awaited at the same time

ConvResetBufferMs == 200    \* "?.end + 200 || 2000"
ConvResetDefaultMs == 2000  \* "?.end + 200 || 2000"

ConvTexts == {<<" ">>, <<"a">>, <<"b">>}
ConvCodes == {1}
Sources == {"ai", "user"}

\* The timelines the alignment request returns: contiguous events from 0.
RECURSIVE ConvTimelines(_, _)
ConvTimelines(s, n) ==
    IF n = 0 THEN {<<>>}
    ELSE {<<>>} \cup
         UNION {{<<Event(c, s, UnitMs)>> \o rest : rest \in ConvTimelines(s + UnitMs, n - 1)} :
                    c \in ConvCodes}

RECURSIVE TrimLeft(_)
TrimLeft(text) ==
    IF text # <<>> /\ Head(text) = " " THEN TrimLeft(Tail(text)) ELSE text

RECURSIVE TrimRight(_)
TrimRight(text) ==
    IF text # <<>> /\ Last(text) = " "
    THEN TrimRight(SubSeq(text, 1, Len(text) - 1)) ELSE text

Trim(text) == TrimRight(TrimLeft(text))

NeverDuplicate(text) == FALSE

\* "lastProcessedMessageRef.current === messageText"
IsDuplicate(text) == lastProcessedMessageRef = text

AnySpeech(text, source) == TRUE

\* "messageText.trim() && message.source === 'ai'"
IsAiSpeech(text, source) == Trim(text) # <<>> /\ source = "ai"

\* "data.visemes[data.visemes.length - 1]?.end + 200 || 2000"
ConvResetDelay(visemes) ==
    IF Len(visemes) = 0 THEN ConvResetDefaultMs
    ELSE IF Last(visemes).end + ConvResetBufferMs = 0 THEN ConvResetDefaultMs
    ELSE Last(visemes).end + ConvResetBufferMs

ConvTimers(visemes, tl) ==
    {Timer(nextId + i - 1, visemes[i].start, visemes[i].viseme, visemes[i].start,
           tl, "viseme") : i \in 1..Len(visemes)}
    \cup {Timer(nextId + Len(visemes), ConvResetDelay(visemes), Neutral, 0, tl, "reset")}

\* The AI message last processed in the running conversation arrives again
\* while its timeline has timers pending.
Redelivery(text, source) ==
    /\ source = "ai"
    /\ Trim(text) # <<>>
    /\ text = obs.turnText
    /\ \E t \in timers : t.tl = obs.turn

\* A message that is not AI speech arrives while a timeline has timers pending
\* and a request is awaited; obs.ignored tells so until a request settles.
Ignored(text, source) ==
    /\ source # "ai" \/ Trim(text) = <<>>
    /\ timers # {}
    /\ fetches # {}

\* The AI message processed last arrives again after its request failed and
\* nothing is pending; obs.skipped tells so until lastProcessedMessageRef
\* changes.
Skipped(text, source) ==
    /\ source = "ai"
    /\ Trim(text) # <<>>
    /\ text = lastProcessedMessageRef
    /\ obs.turn \in obs.failed
    /\ timers = {}
    /\ fetches = {}

\* onMessage up to its first await (or to its end when it awaits nothing).
OnMessage(text, source) ==
    /\ IF IsAiSpeech(text, source) /\ ~IsDuplicate(text)
       THEN /\ obs.turn < MaxTurns
            /\ lastProcessedMessageRef' = text
            /\ timers' = ClearTimeouts(timers, visemeTimeoutsRef)
            /\ visemeTimeoutsRef' = {}
            /\ fetches' = IF windowVisemeCallback
                          THEN fetches \cup {[tl |-> obs.turn + 1, text |-> text]}
                          ELSE fetches
            /\ obs' = [obs EXCEPT !.turn = obs.turn + 1, !.turnText = text,
                                  !.skipped = FALSE]
       ELSE /\ obs' = [obs EXCEPT !.redelivered = @ \/ Redelivery(text, source),
                                  !.ignored = @ \/ Ignored(text, source),
                                  !.skipped = @ \/ Skipped(text, source)]
            /\ UNCHANGED <<timers, lastProcessedMessageRef, visemeTimeoutsRef, fetches>>
    /\ UNCHANGED <<nextId, calls, connectionAttemptRef, windowVisemeCallback,
                   schedVars, cleanup, simpleVars, alignerVars, lateVars>>

TrackedVisemes(armed) == {t.id : t \in {u \in armed : u.kind = "viseme"}}

\* "visemeTimeoutsRef.current.add(timeout)" and "...add(resetTimeout)"
Tracked(armed) == {t.id : t \in armed}

\* The request answered OK and the body parsed: onMessage resumes and arms the
\* timeline.
FetchOk(f, visemes) ==
    /\ f \in fetches
    /\ fetches' = fetches \ {f}
    /\ LET armed == ConvTimers(visemes, f.tl)
       IN /\ timers' = timers \cup armed
          /\ visemeTimeoutsRef' = visemeTimeoutsRef \cup Tracked(armed)
          /\ nextId' = nextId + Cardinality(armed)
    /\ obs' = [obs EXCEPT !.armedFor = obs.armedFor \cup {f.tl}, !.ignored = FALSE]
    /\ UNCHANGED <<calls, lastProcessedMessageRef, connectionAttemptRef,
                   windowVisemeCallback, schedVars, cleanup, simpleVars,
                   alignerVars, lateVars>>

\* The request answered with a status that is not OK: nothing is scheduled.
FetchNotOk(f) ==
    /\ f \in fetches
    /\ fetches' = fetches \ {f}
    /\ obs' = [obs EXCEPT !.failed = obs.failed \cup {f.tl}, !.ignored = FALSE]
    /\ UNCHANGED <<commonVars, lastProcessedMessageRef, visemeTimeoutsRef,
                   connectionAttemptRef, windowVisemeCallback, schedVars, cleanup,
                   simpleVars, alignerVars, lateVars>>

\* The request threw: the catch block logs the error.
FetchThrows(f) ==
    /\ f \in fetches
    /\ fetches' = fetches \ {f}
    /\ obs' = [obs EXCEPT !.failed = obs.failed \cup {f.tl}, !.ignored = FALSE]
    /\ UNCHANGED <<commonVars, lastProcessedMessageRef, visemeTimeoutsRef,
                   connectionAttemptRef, windowVisemeCallback, schedVars, cleanup,
                   simpleVars, alignerVars, lateVars>>

\* home.tsx stores the character's callback in window.visemeCallback.
HandleVisemeCallbackReady ==
    /\ ~windowVisemeCallback
    /\ windowVisemeCallback' = TRUE
    /\ UNCHANGED <<commonVars, lastProcessedMessageRef, visemeTimeoutsRef,
                   connectionAttemptRef, fetches, obs, schedVars, cleanup, simpleVars,
                   alignerVars, lateVars>>

\* startConversation up to "await startSession"; without an agent id it throws
\* before clearing anything and the finally block resets the attempt flag.
\* calls holds the latest callback since startConversation was last called.
StartConversation(hasAgentId) ==
    /\ ~connectionAttemptRef
    /\ IF hasAgentId
       THEN /\ obs.startsInFlight < MaxStartsInFlight
            /\ connectionAttemptRef' = TRUE
            /\ timers' = ClearTimeouts(timers, visemeTimeoutsRef)
            /\ visemeTimeoutsRef' = {}
            /\ lastProcessedMessageRef' = <<>>
            /\ obs' = [obs EXCEPT !.turnText = <<>>, !.skipped = FALSE,
                                  !.startsInFlight = obs.startsInFlight + 1]
       ELSE UNCHANGED <<timers, visemeTimeoutsRef, lastProcessedMessageRef,
                        connectionAttemptRef, obs>>
    /\ calls' = <<>>
    /\ UNCHANGED <<nextId, windowVisemeCallback, fetches, schedVars, cleanup,
                   simpleVars, alignerVars, lateVars>>

\* startSession settles (resolves or rejects): the finally block runs.
StartSessionSettled ==
    /\ obs.startsInFlight > 0
    /\ connectionAttemptRef' = FALSE
    /\ obs' = [obs EXCEPT !.startsInFlight = obs.startsInFlight - 1]
    /\ UNCHANGED <<commonVars, lastProcessedMessageRef, visemeTimeoutsRef,
                   windowVisemeCallback, fetches, schedVars, cleanup, simpleVars,
                   alignerVars, lateVars>>

\* stopConversation up to "await endSession".
StopConversation ==
    /\ timers' = ClearTimeouts(timers, visemeTimeoutsRef)
    /\ visemeTimeoutsRef' = {}
    /\ lastProcessedMessageRef' = <<>>
    /\ connectionAttemptRef' = FALSE
    /\ calls' = IF windowVisemeCallback
                THEN <<Call(Neutral, "stopConversation", obs.turn, 0)>>
                ELSE calls
    /\ obs' = [obs EXCEPT !.turnText = <<>>, !.skipped = FALSE]
    /\ UNCHANGED <<nextId, windowVisemeCallback, fetches, schedVars, cleanup, simpleVars,
                   alignerVars, lateVars>>

\* A due timer of onMessage runs: window.visemeCallback(code).  Of the calls
\* this hook makes only the latest is kept.
FireConv ==
    /\ Due # {}
    /\ LET t == NextDue
       IN /\ timers' = timers \ {t}
          /\ calls' = <<Call(t.viseme, t.kind, t.tl, t.start)>>
    /\ UNCHANGED <<nextId, schedVars, cleanup, convVars, simpleVars, alignerVars, lateVars>>

InitConv ==
    /\ timers = {}
    /\ nextId = 0
    /\ calls = <<>>
    /\ SchedIdle
    /\ AnalyzerIdle
    /\ ConvIdle
    /\ windowVisemeCallback = FALSE
    /\ SimpleIdle
    /\ visemeCallbackRef = FALSE
    /\ AlignerIdle
    /\ LateIdle

NextConv ==
    \/ \E text \in ConvTexts, source \in Sources : OnMessage(text, source)
    \/ \E f \in fetches, v \in ConvTimelines(0, MaxConvEvents) : FetchOk(f, v)
    \/ \E f \in fetches : FetchNotOk(f)
    \/ \E f \in fetches : FetchThrows(f)
    \/ HandleVisemeCallbackReady
    \/ \E hasAgentId \in BOOLEAN : StartConversation(hasAgentId)
    \/ StartSessionSettled
    \/ StopConversation
    \/ FireConv
    \/ Tick

SpecConv == InitConv /\ [][NextConv]_vars

\* C1: at most one timeline has armed viseme callbacks at any moment.
C1_OneArmedTimeline == Cardinality({t.tl : t \in timers}) <= 1

C9_FallbackAfterFailedFetch == obs.failed \subseteq obs.armedFor

(***************************************************************************)
(* useElevenLabsSimple: agent_response and interruption events,            *)
(* generatePreciseVisemes and generateTextBasedVisemes.                    *)
(***************************************************************************)
MaxResponses == 1       \* agent_response events in one run
MaxTextLen == 3         \* longest agent text, in characters
MaxInterruptions == 1   \* interruption events in one run

CharDurationMs == 120   \* "const charDuration = 120"
DefaultViseme == 5      \* "textToVisemeMap[char] || 5"

Alphabet == {"M", " "}

RECURSIVE TextsUpTo(_)
TextsUpTo(n) ==
    IF n = 0 THEN {<<>>}
    ELSE LET shorter == TextsUpTo(n - 1)
         IN shorter \cup {Append(t, c) : t \in shorter, c \in Alphabet}

UpperCase == <<"A", "B", "C", "D", "E", "F", "G", "H", "I", "J", "K", "L", "M",
               "N", "O", "P", "Q", "R", "S", "T", "U", "V", "W", "X", "Y", "Z">>

LowerCase == <<"a", "b", "c", "d", "e", "f", "g", "h", "i", "j", "k", "l", "m",
               "n", "o", "p", "q", "r", "s", "t", "u", "v", "w", "x", "y", "z">>

\* "text.toLowerCase()", one character at a time.
ToLowerCase(c) ==
    IF \E i \in DOMAIN UpperCase : UpperCase[i] = c
    THEN LowerCase[CHOOSE i \in DOMAIN UpperCase : UpperCase[i] = c]
    ELSE c

\* "textToVisemeMap[char] || 5"; the two-letter keys never match one character.
TextToViseme(c) ==
    CASE c \in {"a", "i", "y"} -> 6
      [] c \in {"e", "h"} -> 5
      [] c \in {"o", "k", "g", "q"} -> 3
      [] c \in {"u", "w"} -> 4
      [] c \in {"f", "v"} -> 1
      [] c \in {"m", "b", "p"} -> 2
      [] c = "j" -> 7
      [] c \in {"s", "z", "c", "t", "d", "n"} -> 8
      [] c \in {"l", "r"} -> 9
      [] OTHER -> DefaultViseme

\* Positions (from 0) of the characters that get a viseme timer.
Spoken(text) == {i \in 0..(Len(text) - 1) : ToLowerCase(text[i + 1]) # " "}

\* Timer ids follow the order of the forEach loop.
Rank(set, i) == Cardinality({j \in set : j < i})

NoCharDelay(index) == 0

\* "index * charDuration"
CharDelay(index) == index * CharDurationMs

TextTimers(text, tl) ==
    {Timer(nextId + Rank(Spoken(text), i), CharDelay(i),
           TextToViseme(ToLowerCase(text[i + 1])), CharDelay(i), tl, "viseme") :
        i \in Spoken(text)}
    \cup {Timer(nextId + Cardinality(Spoken(text)), CharDelay(Len(text)),
                Neutral, 0, tl, "reset")}

\* The effect of generateTextBasedVisemes(text) on the timers.
GenerateTextBasedVisemes(text, tl) ==
    IF visemeCallbackRef /\ text # <<>>
    THEN /\ timers' = timers \cup TextTimers(text, tl)
         /\ nextId' = nextId + Cardinality(TextTimers(text, tl))
    ELSE UNCHANGED <<timers, nextId>>

SetVisemeCallback ==
    /\ ~visemeCallbackRef
    /\ visemeCallbackRef' = TRUE
    /\ UNCHANGED <<commonVars, aligns, turns, schedVars, cleanup, convVars, alignerVars, lateVars>>

\* 'agent_response': generatePreciseVisemes runs up to its first await.
AgentResponse(text) ==
    /\ turns < MaxResponses
    /\ text # <<>>
    /\ turns' = turns + 1
    /\ aligns' = IF visemeCallbackRef
                 THEN aligns \cup {[tl |-> turns + 1, text |-> text]}
                 ELSE aligns
    /\ UNCHANGED <<commonVars, visemeCallbackRef, schedVars, cleanup, convVars, alignerVars, lateVars>>

\* getVisemeAlignment returned visemes: playVisemeSequence at normal speed.
AlignOk(a, visemes) ==
    /\ a \in aligns
    /\ Len(visemes) > 0
    /\ aligns' = aligns \ {a}
    /\ LET armed == VisemeTimers(visemes, 1, a.tl) \cup ResetTimers(visemes, 1, a.tl)
       IN /\ timers' = timers \cup armed
          /\ nextId' = nextId + Cardinality(armed)
    /\ UNCHANGED <<calls, visemeCallbackRef, turns, schedVars, cleanup, convVars, alignerVars, lateVars>>

\* getVisemeAlignment returned no viseme: the text-based fallback.
AlignEmpty(a) ==
    /\ a \in aligns
    /\ aligns' = aligns \ {a}
    /\ GenerateTextBasedVisemes(a.text, a.tl)
    /\ UNCHANGED <<calls, visemeCallbackRef, turns, schedVars, cleanup, convVars, alignerVars, lateVars>>

\* The import or getVisemeAlignment threw: the catch block falls back.
AlignFails(a) ==
    /\ a \in aligns
    /\ aligns' = aligns \ {a}
    /\ GenerateTextBasedVisemes(a.text, a.tl)
    /\ UNCHANGED <<calls, visemeCallbackRef, turns, schedVars, cleanup, convVars, alignerVars, lateVars>>

\* 'interruption': the mouth is reset to neutral.
Interruption ==
    /\ Cardinality({i \in DOMAIN calls : calls[i].by = "interruption"}) < MaxInterruptions
    /\ visemeCallbackRef
    /\ calls' = Append(calls, Call(Neutral, "interruption", turns, 0))
    /\ UNCHANGED <<timers, nextId, simpleVars, schedVars, cleanup, convVars, alignerVars, lateVars>>

\* A due timer runs: "if (visemeCallbackRef.current) visemeCallbackRef.current(v)".
FireSimple ==
    /\ Due # {}
    /\ LET t == NextDue
       IN /\ timers' = timers \ {t}
          /\ calls' = IF visemeCallbackRef
                      THEN Append(calls, Call(t.viseme, t.kind, t.tl, t.start))
                      ELSE calls
    /\ UNCHANGED <<nextId, simpleVars, schedVars, cleanup, convVars, alignerVars, lateVars>>

InitSimple ==
    /\ timers = {}
    /\ nextId = 0
    /\ calls = <<>>
    /\ SchedIdle
    /\ AnalyzerIdle
    /\ ConvIdle
    /\ windowVisemeCallback = FALSE
    /\ SimpleIdle
    /\ visemeCallbackRef = FALSE
    /\ AlignerIdle
    /\ LateIdle

NextSimple ==
    \/ SetVisemeCallback
    \/ \E text \in TextsUpTo(MaxTextLen) : AgentResponse(text)
    \/ \E a \in aligns, v \in ConvTimelines(0, MaxEvents) : AlignOk(a, v)
    \/ \E a \in aligns : AlignEmpty(a)
    \/ \E a \in aligns : AlignFails(a)
    \/ Interruption
    \/ FireSimple
    \/ Tick

SpecSimple == InitSimple /\ [][NextSimple]_vars

\* The text-based walk alone: every alignment request ends without visemes.
NextTextWalk ==
    \/ SetVisemeCallback
    \/ \E text \in TextsUpTo(MaxTextLen) : AgentResponse(text)
    \/ \E a \in aligns : AlignEmpty(a)
    \/ \E a \in aligns : AlignFails(a)
    \/ Interruption
    \/ FireSimple
    \/ Tick

SpecTextWalk == InitSimple /\ [][NextTextWalk]_vars

\* C10: after an 'interruption' no viseme callback with a non-zero code that
\* belongs to the interrupted utterance (or to an earlier one) fires.
C10_InterruptionCancelsTimeline ==
    \A i \in DOMAIN calls : \A j \in DOMAIN calls :
        (i < j /\ calls[i].by = "interruption" /\ calls[j].by = "viseme"
               /\ calls[j].tl <= calls[i].tl)
            => calls[j].code = Neutral

(***************************************************************************)
(* ElevenLabsAligner (phoneme-grouping revision): charToViseme,            *)
(* getDominantViseme, groupCharactersIntoPhonemes, smoothVisemeSequence    *)
(* and convertAlignmentToVisemes.  The methods are synchronous and keep no *)
(* state: a run is one call, invoked holds the method and its argument,     *)
(* result what it returned.  An alignment is the sequence of its entries   *)
(* (chars[i], charStartTimesMs[i], charDurationsMs[i]); a string is the    *)
(* sequence of its characters.                                             *)
(***************************************************************************)
MaxChars == 4       \* longest alignment, in characters
MaxVisemes == 3     \* longest sequence handed to smoothVisemeSequence directly

MinDuration == 100      \* "const minDuration = 100"
DefaultOpening == 1     \* "charToVisemeMap[char] || 1"
GroupCloseMin == 2      \* "currentGroup.length >= 2 && ("
GroupLimit == 3         \* "(currentGroup.length >= 3) || // Limit group size"
MaxVisemeCode == 9      \* "0=Neutral, 1-9=Different mouth shapes"

\* The printable ASCII characters, U+0020 to U+007E; the grave accent is
\* written "U+0060".
PrintableAscii ==
    {" ", "!", "\"", "#", "$", "%", "&", "'", "(", ")", "*", "+", ",", "-", ".", "/",
     "0", "1", "2", "3", "4", "5", "6", "7", "8", "9", ":", ";", "<", "=", ">", "?",
     "@", "[", "\\", "]", "^", "_", "U+0060", "{", "|", "}", "~"}
    \cup Range(UpperCase) \cup Range(LowerCase)

\* The keys of charToVisemeMap that one character can match.
CharToVisemeKeys ==
    Range(LowerCase)
    \cup {" ", ".", ",", "!", "?", ":", ";", "\n", "\t"}
    \cup {"0", "1", "2", "3", "4", "5", "6", "7", "8", "9"}

\* charToVisemeMap[char] for a key of the map.
CharToVisemeMap(char) ==
    CASE char \in {"a", "h", "1", "4"} -> 1
      [] char \in {"e", "l", "r", "2", "5", "7"} -> 2
      [] char \in {"i", "y", "3", "6"} -> 3
      [] char \in {"o", "0", "8", "9"} -> 4
      [] char \in {"u", "w"} -> 5
      [] char \in {"f", "v"} -> 6
      [] char \in {"b", "p", "m"} -> 7
      [] char \in {"t", "d", "n", "s", "z", "x"} -> 8
      [] char \in {"c", "j", "g", "k", "q"} -> 9
      [] OTHER -> Neutral

\* "return charToVisemeMap[char] || 1": a missing key and the value 0 are
\* both falsy.
CharToViseme(char) ==
    IF char \in CharToVisemeKeys /\ CharToVisemeMap(char) # 0
    THEN CharToVisemeMap(char)
    ELSE DefaultOpening

\* "visemeCounts[viseme]" after the counting loop.
VisemeCount(chars, viseme) ==
    Cardinality({i \in DOMAIN chars : CharToViseme(ToLowerCase(chars[i])) = viseme})

\* Object.entries lists integer keys in ascending order: the loop over the
\* keys still to visit, with the running dominantViseme and maxCount.
RECURSIVE DominantFrom(_, _, _, _)
DominantFrom(chars, keys, dominantViseme, maxCount) ==
    IF keys = {} THEN dominantViseme
    ELSE LET visemeNum == CHOOSE k \in keys : \A other \in keys : k <= other
             count == VisemeCount(chars, visemeNum)
         IN IF visemeNum # 0 /\ count > maxCount
            THEN DominantFrom(chars, keys \ {visemeNum}, visemeNum, count)
            ELSE DominantFrom(chars, keys \ {visemeNum}, dominantViseme, maxCount)

GetDominantViseme(chars) ==
    DominantFrom(chars, {CharToViseme(ToLowerCase(chars[i])) : i \in DOMAIN chars},
                 Neutral, 0)

\* "char === ' ' || char === '\n' || char === '\t' || /[.,!?;:]/.test(char)"
IsSkipped(char) == char \in {" ", "\n", "\t", ".", ",", "!", "?", ";", ":"}

\* "/[aeiouAEIOU]/.test(char)"; the empty string does not match.
IsVowelChar(char) == char \in {"a", "e", "i", "o", "u", "A", "E", "I", "O", "U"}

\* "i + 1 < alignment.chars.length ? alignment.chars[i + 1] : ''"
NextChar(alignment, i) == IF i + 1 <= Len(alignment) THEN alignment[i + 1].char ELSE ""

ShouldEndGroupUnlimited(currentGroup, char, nextChar) ==
    /\ Len(currentGroup) >= GroupCloseMin
    /\ \/ IsVowelChar(char) /\ nextChar # "" /\ ~IsVowelChar(nextChar)
       \/ nextChar = "" \/ nextChar = " "

\* shouldEndGroup, evaluated after the character was pushed.
ShouldEndGroup(currentGroup, char, nextChar) ==
    /\ Len(currentGroup) >= GroupCloseMin
    /\ \/ IsVowelChar(char) /\ nextChar # "" /\ ~IsVowelChar(nextChar)
       \/ Len(currentGroup) >= GroupLimit
       \/ nextChar = "" \/ nextChar = " "

PhonemeGroup(chars, startTime, endTime) ==
    [chars |-> chars, startTime |-> startTime, endTime |-> endTime]

DropGroup(groups, currentGroup, groupStartTime, groupEndTime) == groups

\* "if (currentGroup.length > 0) groups.push({...})"
FlushGroup(groups, currentGroup, groupStartTime, groupEndTime) ==
    IF Len(currentGroup) > 0
    THEN Append(groups, PhonemeGroup(currentGroup, groupStartTime, groupEndTime))
    ELSE groups

\* The for loop of groupCharactersIntoPhonemes from entry i on, and the final
\* flush.
RECURSIVE GroupFrom(_, _, _, _, _, _)
GroupFrom(alignment, i, groups, currentGroup, groupStartTime, groupEndTime) ==
    IF i > Len(alignment)
    THEN FlushGroup(groups, currentGroup, groupStartTime, groupEndTime)
    ELSE LET char == alignment[i].char
             startTime == alignment[i].start
             endTime == startTime + alignment[i].duration
         IN IF IsSkipped(char)
            THEN GroupFrom(alignment, i + 1,
                           FlushGroup(groups, currentGroup, groupStartTime, groupEndTime),
                           <<>>, groupStartTime, groupEndTime)
            ELSE LET started == IF Len(currentGroup) = 0 THEN startTime
                                ELSE groupStartTime
                     pushed == Append(currentGroup, char)
                 IN IF ShouldEndGroup(pushed, char, NextChar(alignment, i))
                    THEN GroupFrom(alignment, i + 1,
                                   Append(groups, PhonemeGroup(pushed, started, endTime)),
                                   <<>>, started, endTime)
                    ELSE GroupFrom(alignment, i + 1, groups, pushed, started, endTime)

GroupCharactersIntoPhonemes(alignment) == GroupFrom(alignment, 1, <<>>, <<>>, 0, 0)

VisemeTimestamp(viseme, start, end, char) ==
    [viseme |-> viseme, start |-> start, end |-> end, char |-> char]

\* "duration < minDuration"
IsTooShort(duration) == duration < MinDuration

NeverSame(previous, current) == FALSE

\* "smoothed[smoothed.length - 1].viseme === current.viseme"
SameViseme(previous, current) == previous.viseme = current.viseme

\* "previous.end = current.end; previous.char += current.char"
ExtendPrevious(smoothed, current) ==
    [smoothed EXCEPT ![Len(smoothed)] =
        [@ EXCEPT !.end = current.end, !.char = @ \o current.char]]

\* The for loop of smoothVisemeSequence from event i on.
RECURSIVE SmoothFrom(_, _, _)
SmoothFrom(visemes, i, smoothed) ==
    IF i > Len(visemes) THEN smoothed
    ELSE LET current == visemes[i]
             duration == current.end - current.start
         IN IF IsTooShort(duration) /\ Len(smoothed) > 0
            THEN SmoothFrom(visemes, i + 1, ExtendPrevious(smoothed, current))
            ELSE IF Len(smoothed) > 0 /\ SameViseme(Last(smoothed), current)
            THEN SmoothFrom(visemes, i + 1, ExtendPrevious(smoothed, current))
            ELSE SmoothFrom(visemes, i + 1, Append(smoothed, current))

SmoothVisemeSequence(visemes) ==
    IF Len(visemes) <= 1 THEN visemes ELSE SmoothFrom(visemes, 1, <<>>)

\* The events pushed for the groups, before smoothing.
GroupVisemes(phonemeGroups) ==
    [k \in DOMAIN phonemeGroups |->
        VisemeTimestamp(GetDominantViseme(phonemeGroups[k].chars),
                        phonemeGroups[k].startTime, phonemeGroups[k].endTime,
                        phonemeGroups[k].chars)]

ConvertAlignmentToVisemes(alignment) ==
    SmoothVisemeSequence(GroupVisemes(GroupCharactersIntoPhonemes(alignment)))

(***************************************************************************)
(* The arguments the methods are called with.  Alignments are as the text  *)
(* to speech service returns them: the first character starts at 0 and     *)
(* each next one starts where the previous one ends; a character may have  *)
(* no duration.                                                            *)
(***************************************************************************)
AlignChars == {"H", "i", " ", "."}
AlignDurations == {0, MinDuration}
GroupChars == {"H", "i", "t"}
VisemeDurations == {MinDuration \div 2, MinDuration}

CharacterTiming(char, start, duration) ==
    [char |-> char, start |-> start, duration |-> duration]

\* Start time of entry i when the entries before it last durations[1..i-1].
RECURSIVE StartOf(_, _)
StartOf(durations, i) ==
    IF i = 1 THEN 0 ELSE StartOf(durations, i - 1) + durations[i - 1]

Alignment(chars, durations) ==
    [i \in DOMAIN chars |-> CharacterTiming(chars[i], StartOf(durations, i), durations[i])]

RECURSIVE VisemeSequencesFrom(_, _)
VisemeSequencesFrom(s, n) ==
    IF n = 0 THEN {<<>>}
    ELSE {<<>>} \cup
         UNION {{<<VisemeTimestamp(c, s, s + d, <<"x">>)>> \o rest :
                    c \in Codes, rest \in VisemeSequencesFrom(s + d, n - 1)} :
                    d \in VisemeDurations}

VisemeSequences == VisemeSequencesFrom(0, MaxVisemes)

RECURSIVE GroupsOfChars(_)
GroupsOfChars(n) ==
    IF n = 1 THEN {<<c>> : c \in GroupChars}
    ELSE LET shorter == GroupsOfChars(n - 1)
         IN shorter \cup {Append(g, c) : g \in shorter, c \in GroupChars}

\* A method called with arg returns value.
Returns(fn, arg, value) ==
    /\ invoked' = [fn |-> fn, arg |-> arg]
    /\ result' = [done |-> TRUE, threw |-> FALSE, value |-> value]

\* A run is one call of one method: nothing is called once it has returned.
InvokeCharToViseme ==
    /\ ~result.done
    /\ \E char \in PrintableAscii : Returns("charToViseme", char, CharToViseme(char))
    /\ UNCHANGED <<commonVars, schedVars, cleanup, convVars, simpleVars, lateVars>>

InvokeGetDominantViseme ==
    /\ ~result.done
    /\ \E chars \in GroupsOfChars(GroupLimit) :
          Returns("getDominantViseme", chars, GetDominantViseme(chars))
    /\ UNCHANGED <<commonVars, schedVars, cleanup, convVars, simpleVars, lateVars>>

InvokeGroupCharactersIntoPhonemes ==
    /\ ~result.done
    /\ \E n \in 0..MaxChars :
          \E chars \in [1..n -> AlignChars], durations \in [1..n -> AlignDurations] :
              Returns("groupCharactersIntoPhonemes", Alignment(chars, durations),
                      GroupCharactersIntoPhonemes(Alignment(chars, durations)))
    /\ UNCHANGED <<commonVars, schedVars, cleanup, convVars, simpleVars, lateVars>>

InvokeSmoothVisemeSequence ==
    /\ ~result.done
    /\ \E visemes \in VisemeSequences :
          Returns("smoothVisemeSequence", visemes, SmoothVisemeSequence(visemes))
    /\ UNCHANGED <<commonVars, schedVars, cleanup, convVars, simpleVars, lateVars>>

InvokeConvertAlignmentToVisemes ==
    /\ ~result.done
    /\ \E n \in 0..MaxChars :
          \E chars \in [1..n -> AlignChars], durations \in [1..n -> AlignDurations] :
              Returns("convertAlignmentToVisemes", Alignment(chars, durations),
                      ConvertAlignmentToVisemes(Alignment(chars, durations)))
    /\ UNCHANGED <<commonVars, schedVars, cleanup, convVars, simpleVars, lateVars>>

InitAligner ==
    /\ timers = {}
    /\ nextId = 0
    /\ calls = <<>>
    /\ SchedIdle
    /\ AnalyzerIdle
    /\ ConvIdle
    /\ windowVisemeCallback = FALSE
    /\ SimpleIdle
    /\ visemeCallbackRef = FALSE
    /\ AlignerIdle
    /\ LateIdle

NextAligner ==
    \/ InvokeCharToViseme
    \/ InvokeGetDominantViseme
    \/ InvokeGroupCharactersIntoPhonemes
    \/ InvokeSmoothVisemeSequence
    \/ InvokeConvertAlignmentToVisemes

SpecAligner == InitAligner /\ [][NextAligner]_vars

Returned(fn) == invoked.fn = fn /\ result.done

(***************************************************************************)
(* Properties of the smoother and of the conversion.                       *)
(***************************************************************************)
Dwell(event) == event.end - event.start

\* The whole sequence, first start to last end, is shorter than the minimum.
UtteranceShort(visemes) ==
    visemes # <<>> /\ Last(visemes).end - visemes[1].start < MinDuration

\* C11: the sequence smoothVisemeSequence returns, called directly or by
\* convertAlignmentToVisemes, has no two consecutive events with the same
\* viseme code.
C11_NoAdjacentDuplicate ==
    (Returned("smoothVisemeSequence") \/ Returned("convertAlignmentToVisemes")) =>
        \A k \in 1..(Len(result.value) - 1) :
            result.value[k].viseme # result.value[k + 1].viseme

\* Three events, two neighbours of them with the same code and neither
\* short, were smoothed into fewer events.
C11_Witness ==
    /\ Returned("smoothVisemeSequence")
    /\ Len(invoked.arg) = 3
    /\ \E k \in 1..2 : /\ invoked.arg[k].viseme = invoked.arg[k + 1].viseme
                       /\ ~IsTooShort(Dwell(invoked.arg[k]))
                       /\ ~IsTooShort(Dwell(invoked.arg[k + 1]))
    /\ Len(result.value) = 2

\* C12: every event smoothVisemeSequence returns lasts at least the minimum
\* dwell of 100 ms, except the first one when the whole input, first start to
\* last end, is shorter than the minimum.
C12_MinimumDwell ==
    Returned("smoothVisemeSequence") =>
        \A k \in DOMAIN result.value :
            \/ Dwell(result.value[k]) >= MinDuration
            \/ k = 1 /\ UtteranceShort(invoked.arg)

\* C13: the events convertAlignmentToVisemes returns are strictly ordered by
\* start time and none overlaps its successor.
C13_StrictlyOrdered ==
    Returned("convertAlignmentToVisemes") =>
        \A k \in 1..(Len(result.value) - 1) :
            /\ result.value[k].start < result.value[k + 1].start
            /\ result.value[k].end <= result.value[k + 1].start

(***************************************************************************)
(* Properties of the classifier, of the grouper and of the dominant code.  *)
(***************************************************************************)
\* C14: charToViseme returns a code of the viseme set 0..9 for every printable
\* ASCII character, and the neutral code 0 for whitespace and punctuation.
C14_TotalClassifier ==
    Returned("charToViseme") =>
        /\ result.value \in 0..MaxVisemeCode
        /\ IsSkipped(invoked.arg) => result.value = Neutral

NotSkipped(entry) == ~IsSkipped(entry.char)

\* The characters of the alignment that are not whitespace or punctuation.
Retained(alignment) ==
    LET kept == SelectSeq(alignment, NotSkipped)
    IN [i \in DOMAIN kept |-> kept[i].char]

RECURSIVE ConcatChars(_)
ConcatChars(groups) ==
    IF groups = <<>> THEN <<>>
    ELSE Head(groups).chars \o ConcatChars(Tail(groups))

\* C15: the groups of groupCharactersIntoPhonemes are ordered, none overlaps
\* its successor, and their characters concatenated in order are the input
\* characters without whitespace and punctuation, zero-duration ones included.
C15_GroupsPartitionInput ==
    Returned("groupCharactersIntoPhonemes") =>
        /\ \A k \in 1..(Len(result.value) - 1) :
              /\ result.value[k].startTime <= result.value[k + 1].startTime
              /\ result.value[k].endTime <= result.value[k + 1].startTime
        /\ ConcatChars(result.value) = Retained(invoked.arg)

\* Four entries, a retained one of no duration and a skipped one among them,
\* were put into two groups or more.
C15_Witness ==
    /\ Returned("groupCharactersIntoPhonemes")
    /\ Len(invoked.arg) = 4
    /\ \E i \in DOMAIN invoked.arg :
           NotSkipped(invoked.arg[i]) /\ invoked.arg[i].duration = 0
    /\ \E i \in DOMAIN invoked.arg : IsSkipped(invoked.arg[i].char)
    /\ Len(result.value) >= 2

\* C16: every group of groupCharactersIntoPhonemes ends after it starts.
C16_GroupsHaveDuration ==
    Returned("groupCharactersIntoPhonemes") =>
        \A k \in DOMAIN result.value :
            result.value[k].endTime > result.value[k].startTime

\* "Hi" with H:[0,100] and i:[100,200].
HiAlignment == Alignment(<<"H", "i">>, <<MinDuration, MinDuration>>)

\* C17: for "Hi" the grouper returns the one group H,i from 0 to 200 ms, and
\* convertAlignmentToVisemes returns one event from 0 to 200 ms or later
\* whose code is the one charToViseme gives the vowel 'i'.
C17_HiScenario ==
    /\ (Returned("groupCharactersIntoPhonemes") /\ invoked.arg = HiAlignment) =>
           result.value = <<PhonemeGroup(<<"H", "i">>, 0, 2 * MinDuration)>>
    /\ (Returned("convertAlignmentToVisemes") /\ invoked.arg = HiAlignment) =>
           /\ Len(result.value) = 1
           /\ result.value[1].start = 0
           /\ result.value[1].end >= 2 * MinDuration
           /\ result.value[1].viseme = CharToViseme("i")

CodeOf(char) == CharToViseme(ToLowerCase(char))

\* The codes that occur most often among the characters.
MostFrequent(chars) ==
    {CodeOf(chars[i]) : i \in {i \in DOMAIN chars :
        \A j \in DOMAIN chars :
            VisemeCount(chars, CodeOf(chars[j])) <= VisemeCount(chars, CodeOf(chars[i]))}}

\* C18: getDominantViseme returns the code that occurs most often among the
\* characters; of several non-neutral codes that tie for it, the one met
\* first in the order of the characters.
C18_DominantByMajority ==
    (Returned("getDominantViseme") /\ MostFrequent(invoked.arg) \ {Neutral} # {}) =>
        LET tied == MostFrequent(invoked.arg) \ {Neutral}
            first == CHOOSE i \in DOMAIN invoked.arg :
                        /\ CodeOf(invoked.arg[i]) \in tied
                        /\ \A j \in 1..(i - 1) : CodeOf(invoked.arg[j]) \notin tied
        IN result.value = CodeOf(invoked.arg[first])

\* C19: of a sequence of two events or more, an event shorter than the
\* minimum dwell is merged into the previous kept event, or into the next one
\* when it is the first: it is not in the result as an event of its own.
C19_ShortEventsMerged ==
    (Returned("smoothVisemeSequence") /\ Len(invoked.arg) >= 2) =>
        \A i \in DOMAIN invoked.arg :
            IsTooShort(Dwell(invoked.arg[i])) =>
                \A k \in DOMAIN result.value :
                    ~(/\ result.value[k].start = invoked.arg[i].start
                      /\ result.value[k].end = invoked.arg[i].end)

\* How many of the entries 1..i are retained.
RetainedUpTo(alignment, i) ==
    Cardinality({j \in 1..i : NotSkipped(alignment[j])})

\* The numbers of retained characters after which a group ends.
GroupEnds(groups) ==
    {Len(ConcatChars(SubSeq(groups, 1, k))) : k \in DOMAIN groups}

IsConsonantChar(char) == char # "" /\ ~IsVowelChar(char) /\ ~IsSkipped(char)

\* C20: a group ends right after every vowel that is directly followed by a
\* consonant, also when that vowel is the first character of its group.
C20_VowelConsonantBoundary ==
    Returned("groupCharactersIntoPhonemes") =>
        \A i \in 1..(Len(invoked.arg) - 1) :
            (IsVowelChar(invoked.arg[i].char) /\ IsConsonantChar(invoked.arg[i + 1].char))
                => RetainedUpTo(invoked.arg, i) \in GroupEnds(result.value)

\* C21: every group of groupCharactersIntoPhonemes holds one to three
\* characters, and a whitespace or punctuation entry ends the group in
\* progress: no group holds characters from both sides of such an entry.
C21_GroupsSmallAndWithinWords ==
    Returned("groupCharactersIntoPhonemes") =>
        /\ \A k \in DOMAIN result.value :
              Len(result.value[k].chars) \in 1..GroupLimit
        /\ \A i \in DOMAIN invoked.arg :
              (IsSkipped(invoked.arg[i].char) /\ RetainedUpTo(invoked.arg, i) > 0) =>
                  RetainedUpTo(invoked.arg, i) \in GroupEnds(result.value)

\* Three characters and a skipped entry after them gave a group of three.
C21_Witness ==
    /\ Returned("groupCharactersIntoPhonemes")
    /\ Len(invoked.arg) = 4
    /\ IsSkipped(invoked.arg[4].char)
    /\ \E k \in DOMAIN result.value : Len(result.value[k].chars) = GroupLimit

(***************************************************************************)
(* PhonemeConverter: wordToPhonemes, phonemeToViseme, convertWordsToVisemes *)
(* and generateVisemeTimeline.  JavaScript numbers are modelled as exact   *)
(* fractions num/den; a zero den stands for the Infinity or NaN a division *)
(* by zero gives, which no event ever holds.                               *)
(***************************************************************************)
MaxWordLen == 3         \* longest word handed to wordToPhonemes
MaxFallbackChars == 5   \* longest text handed to generateVisemeTimeline

RECURSIVE Gcd(_, _)
Gcd(a, b) == IF b = 0 THEN a ELSE Gcd(b, a % b)

\* The number num/den in lowest terms.
Frac(num, den) ==
    LET g == Gcd(IF num < 0 THEN -num ELSE num, den)
    IN IF g = 0 THEN [num |-> num, den |-> den]
       ELSE [num |-> num \div g, den |-> den \div g]

FracSum(a, b) == Frac(a.num * b.den + b.num * a.den, a.den * b.den)

FracTimes(k, a) == Frac(k * a.num, a.den)

FracOver(a, k) == Frac(a.num, a.den * k)

FracEq(a, b) == a.num * b.den = b.num * a.den

IsLetter(char) == char \in Range(LowerCase)

\* "word.toLowerCase().replace(/[^a-z]/g, '')"
CleanWord(word) == SelectSeq([i \in DOMAIN word |-> ToLowerCase(word[i])], IsLetter)

NeverDigraph(char, nextChar) == FALSE

\* The four tests "char === 't' && nextChar === 'h'" and the like.
IsDigraph(char, nextChar) ==
    <<char, nextChar>> \in {<<"t", "h">>, <<"s", "h">>, <<"c", "h">>, <<"n", "g">>}

\* What the switch statements push for one letter.
LetterPhonemes(char) ==
    CASE char = "a" -> <<"ae">>
      [] char = "e" -> <<"eh">>
      [] char = "i" -> <<"ih">>
      [] char = "o" -> <<"ao">>
      [] char = "u" -> <<"uh">>
      [] char \in {"c", "q"} -> <<"k">>
      [] char = "j" -> <<"jh">>
      [] char = "x" -> <<"k", "s">>
      [] OTHER -> <<char>>

\* The for loop of wordToPhonemes from letter i on: one step per iteration,
\* with the place it started at, the letters it consumed and what it pushed.
RECURSIVE ScanFrom(_, _)
ScanFrom(cleanWord, i) ==
    IF i > Len(cleanWord) THEN <<>>
    ELSE IF i < Len(cleanWord) /\ IsDigraph(cleanWord[i], cleanWord[i + 1])
         THEN <<[at |-> i, letters |-> 2,
                 phonemes |-> <<cleanWord[i] \o cleanWord[i + 1]>>]>>
              \o ScanFrom(cleanWord, i + 2)
         ELSE <<[at |-> i, letters |-> 1, phonemes |-> LetterPhonemes(cleanWord[i])]>>
              \o ScanFrom(cleanWord, i + 1)

RECURSIVE PushedBy(_)
PushedBy(steps) ==
    IF steps = <<>> THEN <<>> ELSE Head(steps).phonemes \o PushedBy(Tail(steps))

WordToPhonemes(word) == PushedBy(ScanFrom(CleanWord(word), 1))

\* "this.PHONEME_TO_VISEME[phoneme.toLowerCase()] || 0"
PhonemeToViseme(phoneme) ==
    CASE phoneme \in {"a", "aa", "ae", "ah", "ao", "aw", "ay"} -> 1
      [] phoneme \in {"e", "eh", "er", "ey"} -> 2
      [] phoneme \in {"i", "ih", "iy"} -> 3
      [] phoneme \in {"o", "ow", "oy"} -> 4
      [] phoneme \in {"u", "uh", "uw"} -> 5
      [] phoneme \in {"b", "p", "m"} -> 6
      [] phoneme \in {"f", "v"} -> 7
      [] phoneme \in {"th", "dh"} -> 8
      [] phoneme \in {"t", "d", "n", "l"} -> 9
      [] phoneme \in {"k", "g", "ng"} -> 10
      [] phoneme \in {"ch", "jh", "sh", "zh"} -> 11
      [] phoneme = "r" -> 12
      [] phoneme \in {"s", "z"} -> 13
      [] phoneme \in {"w", "y"} -> 14
      [] phoneme = "h" -> 15
      [] OTHER -> Neutral

WordTiming(word, start, end) == [word |-> word, start |-> start, end |-> end]

\* The events pushed for one word.
WordVisemes(wordTiming) ==
    LET phonemes == WordToPhonemes(wordTiming.word)
        wordDuration == FracSum(wordTiming.end, FracTimes(-1, wordTiming.start))
        phonemeDuration == FracOver(wordDuration, Len(phonemes))
    IN [index \in 1..Len(phonemes) |->
           LET start == FracSum(wordTiming.start, FracTimes(index - 1, phonemeDuration))
           IN [viseme |-> PhonemeToViseme(phonemes[index]),
               start |-> start, end |-> FracSum(start, phonemeDuration)]]

RECURSIVE ConvertWordsToVisemes(_)
ConvertWordsToVisemes(wordTimings) ==
    IF wordTimings = <<>> THEN <<>>
    ELSE WordVisemes(Head(wordTimings)) \o ConvertWordsToVisemes(Tail(wordTimings))

\* "text.split(/\s+/).filter(word => word.length > 0)": the loop over the
\* characters, with the words closed so far and the word in progress.
RECURSIVE SplitFrom(_, _, _, _)
SplitFrom(text, i, words, word) ==
    IF i > Len(text) THEN IF word = <<>> THEN words ELSE Append(words, word)
    ELSE IF text[i] = " "
         THEN SplitFrom(text, i + 1, IF word = <<>> THEN words ELSE Append(words, word),
                        <<>>)
         ELSE SplitFrom(text, i + 1, words, Append(word, text[i]))

SplitWords(text) == SplitFrom(text, 1, <<>>, <<>>)

WordTimings(words, audioDuration) ==
    LET avgWordDuration == FracOver(Frac(audioDuration, 1), Len(words))
    IN [index \in 1..Len(words) |->
           WordTiming(words[index], FracTimes(index - 1, avgWordDuration),
                      FracTimes(index, avgWordDuration))]

GenerateVisemeTimeline(text, audioDuration) ==
    ConvertWordsToVisemes(WordTimings(SplitWords(text), audioDuration))

(***************************************************************************)
(* convertTimestampsToVisemes of the server and its charToViseme.  The     *)
(* argument is a list of timestamps or missing (null or undefined).        *)
(***************************************************************************)
\* "PHONEME_TO_VISEME[upperChar]" for the keys of one character, 0 otherwise.
ServerPhonemeToViseme(upperChar) ==
    CASE upperChar = "A" -> 1
      [] upperChar = "E" -> 2
      [] upperChar = "I" -> 3
      [] upperChar = "O" -> 4
      [] upperChar = "U" -> 5
      [] upperChar \in {"M", "B", "P"} -> 6
      [] upperChar \in {"F", "V"} -> 7
      [] upperChar \in {"T", "D", "S", "Z", "L", "N"} -> 9
      [] OTHER -> 0

\* "char.toUpperCase()", one character at a time.
ToUpperCase(c) ==
    IF \E i \in DOMAIN LowerCase : LowerCase[i] = c
    THEN UpperCase[CHOOSE i \in DOMAIN LowerCase : LowerCase[i] = c]
    ELSE c

\* charToViseme of the server: the table, then the approximations.
ServerCharToViseme(char) ==
    LET upperChar == ToUpperCase(char)
    IN IF ServerPhonemeToViseme(upperChar) # 0 THEN ServerPhonemeToViseme(upperChar)
       ELSE IF upperChar \in {"M", "B", "P", "L", "R"} THEN 6
       ELSE IF upperChar \in {"F", "V"} THEN 7
       ELSE IF upperChar \in {"T", "D", "S", "Z", "N", "L", "R"} THEN 9
       ELSE IF char \in {" ", "\n", "\t", ".", ",", "!", "?", ";", ":"} THEN Neutral
       ELSE 1

Outcome(threw, value) == [threw |-> threw, value |-> value]

NeverMissing(timestamps) == FALSE

\* "!timestamps"
IsMissing(timestamps) == timestamps.missing

\* Reading "timestamps.length" of null or undefined throws a TypeError.
ConvertTimestampsToVisemes(timestamps) ==
    IF IsMissing(timestamps) THEN Outcome(FALSE, <<>>)
    ELSE IF timestamps.missing THEN Outcome(TRUE, <<>>)
    ELSE IF Len(timestamps.items) = 0 THEN Outcome(FALSE, <<>>)
    ELSE Outcome(FALSE,
                 [i \in DOMAIN timestamps.items |->
                     [viseme |-> ServerCharToViseme(timestamps.items[i].char),
                      start |-> timestamps.items[i].start,
                      end |-> timestamps.items[i].end]])

(***************************************************************************)
(* The arguments the fallback estimators are called with.                  *)
(***************************************************************************)
WordChars == {"t", "h", "s", "c", "n", "g", "a", "x", "T", "'"}
FallbackChars == {"t", "h", "4", " "}
AudioDurations == {1000, 3000}
TimestampChars == {"a", "r", " "}

\* Timestamps of characters that follow each other, UnitMs each.
TimestampsOf(chars) ==
    [missing |-> FALSE,
     items |-> [i \in DOMAIN chars |->
                   [char |-> chars[i], start |-> (i - 1) * UnitMs, end |-> i * UnitMs]]]

InvokeWordToPhonemes ==
    /\ ~result.done
    /\ \E n \in 0..MaxWordLen : \E word \in [1..n -> WordChars] :
          Returns("wordToPhonemes", word, WordToPhonemes(word))
    /\ UNCHANGED <<commonVars, schedVars, cleanup, convVars, simpleVars, lateVars>>

InvokeGenerateVisemeTimeline ==
    /\ ~result.done
    /\ \E n \in 0..MaxFallbackChars :
          \E text \in [1..n -> FallbackChars], audioDuration \in AudioDurations :
              Returns("generateVisemeTimeline",
                      [text |-> text, audioDuration |-> audioDuration],
                      GenerateVisemeTimeline(text, audioDuration))
    /\ UNCHANGED <<commonVars, schedVars, cleanup, convVars, simpleVars, lateVars>>

InvokeConvertTimestampsToVisemes ==
    /\ ~result.done
    /\ \E timestamps \in {[missing |-> TRUE, items |-> <<>>]} \cup
              UNION {{TimestampsOf(chars) : chars \in [1..n -> TimestampChars]} :
                        n \in 0..MaxEvents} :
          /\ invoked' = [fn |-> "convertTimestampsToVisemes", arg |-> timestamps]
          /\ result' = [done |-> TRUE,
                        threw |-> ConvertTimestampsToVisemes(timestamps).threw,
                        value |-> ConvertTimestampsToVisemes(timestamps).value]
    /\ UNCHANGED <<commonVars, schedVars, cleanup, convVars, simpleVars, lateVars>>

NextFallback ==
    \/ InvokeWordToPhonemes
    \/ InvokeGenerateVisemeTimeline
    \/ InvokeConvertTimestampsToVisemes

SpecFallback == InitAligner /\ [][NextFallback]_vars

(***************************************************************************)
(* Properties of the fallback estimators.                                  *)
(***************************************************************************)
\* Number of events the words before word k (from 1) contribute.
RECURSIVE EventsBefore(_, _)
EventsBefore(words, k) ==
    IF k = 1 THEN 0
    ELSE EventsBefore(words, k - 1) + Len(WordToPhonemes(words[k - 1]))

\* C22: generateVisemeTimeline(text, D) with n >= 1 words returns a timeline
\* that is not empty; the events of word k (from 0) start at k*D/n, end at
\* (k+1)*D/n, follow each other without a gap and last equally long.
C22_EqualWordSlices ==
    (Returned("generateVisemeTimeline") /\ Len(SplitWords(invoked.arg.text)) >= 1) =>
        LET words == SplitWords(invoked.arg.text)
            n == Len(words)
            D == invoked.arg.audioDuration
            timeline == result.value
        IN /\ Len(timeline) > 0
           /\ \A k \in 1..n :
                 LET first == EventsBefore(words, k) + 1
                     last == EventsBefore(words, k + 1)
                 IN /\ first <= last
                    /\ last <= Len(timeline)
                    /\ FracEq(timeline[first].start, Frac((k - 1) * D, n))
                    /\ FracEq(timeline[last].end, Frac(k * D, n))
                    /\ \A j \in first..(last - 1) :
                          /\ FracEq(timeline[j].end, timeline[j + 1].start)
                          /\ FracEq(FracSum(timeline[j].end,
                                            FracTimes(-1, timeline[j].start)),
                                    FracSum(timeline[j + 1].end,
                                            FracTimes(-1, timeline[j + 1].start)))

HasLetter(text) == \E i \in DOMAIN text : IsLetter(ToLowerCase(text[i]))

\* C24: for a text without letters (the empty text included) and for an empty
\* or missing timestamp list, generateVisemeTimeline and
\* convertTimestampsToVisemes return a timeline and do not throw.
C24_FallbackNeverThrows ==
    /\ (Returned("generateVisemeTimeline") /\ ~HasLetter(invoked.arg.text)) =>
           ~result.threw /\ result.value = <<>>
    /\ (Returned("convertTimestampsToVisemes") /\ invoked.arg.items = <<>>) =>
           ~result.threw /\ result.value = <<>>

\* generateVisemeTimeline returned for a text of two words without a letter.
C24_Witness ==
    /\ Returned("generateVisemeTimeline")
    /\ Len(SplitWords(invoked.arg.text)) = 2
    /\ ~HasLetter(invoked.arg.text)
    /\ ~result.threw

\* One entry per letter the steps consumed.
RECURSIVE PushedLetters(_)
PushedLetters(steps) ==
    IF steps = <<>> THEN <<>>
    ELSE [i \in 1..Head(steps).letters |-> Head(steps).at + i - 1]
         \o PushedLetters(Tail(steps))

\* C25: wordToPhonemes takes the letter pairs th, sh, ch and ng before the
\* single letters: a pair at the scan position is consumed by one step that
\* pushes the one phoneme of the pair, and the steps consume each letter of
\* the cleaned word once, in order.
C25_DigraphsFirst ==
    Returned("wordToPhonemes") =>
        LET cleanWord == CleanWord(invoked.arg)
            steps == ScanFrom(cleanWord, 1)
        IN /\ result.value = PushedBy(steps)
           /\ \A k \in DOMAIN steps :
                 /\ steps[k].at = 1 + Len(PushedLetters(SubSeq(steps, 1, k - 1)))
                 /\ (steps[k].at < Len(cleanWord) /\
                     <<cleanWord[steps[k].at], cleanWord[steps[k].at + 1]>> \in
                         {<<"t", "h">>, <<"s", "h">>, <<"c", "h">>, <<"n", "g">>})
                    => /\ steps[k].letters = 2
                       /\ Len(steps[k].phonemes) = 1
           /\ Len(PushedLetters(steps)) = Len(cleanWord)

\* A word of three letters that starts with a pair gave two phonemes.
C25_Witness ==
    /\ Returned("wordToPhonemes")
    /\ Len(CleanWord(invoked.arg)) = 3
    /\ IsDigraph(invoked.arg[1], invoked.arg[2])
    /\ Len(result.value) = 2

(***************************************************************************)
(* The aligner called with an alignment whose start times are as received: *)
(* any of a few values, negative and out of order included.                *)
(***************************************************************************)
ReceivedChars == {"H", "i"}
ReceivedStarts == {-MinDuration, 0, MinDuration, 2 * MinDuration}

ReceivedAlignment(chars, starts) ==
    [i \in DOMAIN chars |-> CharacterTiming(chars[i], starts[i], MinDuration)]

InvokeGroupReceived ==
    /\ ~result.done
    /\ \E n \in 0..MaxChars :
          \E chars \in [1..n -> ReceivedChars], starts \in [1..n -> ReceivedStarts] :
              Returns("groupCharactersIntoPhonemes", ReceivedAlignment(chars, starts),
                      GroupCharactersIntoPhonemes(ReceivedAlignment(chars, starts)))
    /\ UNCHANGED <<commonVars, schedVars, cleanup, convVars, simpleVars, lateVars>>

InvokeConvertReceived ==
    /\ ~result.done
    /\ \E n \in 0..MaxChars :
          \E chars \in [1..n -> ReceivedChars], starts \in [1..n -> ReceivedStarts] :
              Returns("convertAlignmentToVisemes", ReceivedAlignment(chars, starts),
                      ConvertAlignmentToVisemes(ReceivedAlignment(chars, starts)))
    /\ UNCHANGED <<commonVars, schedVars, cleanup, convVars, simpleVars, lateVars>>

NextReceived ==
    \/ InvokeGroupReceived
    \/ InvokeConvertReceived

SpecReceived == InitAligner /\ [][NextReceived]_vars

\* The entries of the alignment that are not offending: an entry is offending
\* when its start is negative or before the start of the last entry kept.
RECURSIVE KeptFrom(_, _, _)
KeptFrom(alignment, i, kept) ==
    IF i > Len(alignment) THEN kept
    ELSE IF \/ alignment[i].start < 0
            \/ (kept # <<>> /\ alignment[i].start < kept[Len(kept)].start)
         THEN KeptFrom(alignment, i + 1, kept)
         ELSE KeptFrom(alignment, i + 1, Append(kept, alignment[i]))

\* C23: an entry whose start is negative or breaks the order is discarded and
\* the other entries are processed: the groups and the events are those of
\* the alignment without its offending entries.
C23_OffendingEntryDiscarded ==
    /\ Returned("groupCharactersIntoPhonemes") =>
           result.value = GroupCharactersIntoPhonemes(KeptFrom(invoked.arg, 1, <<>>))
    /\ Returned("convertAlignmentToVisemes") =>
           result.value = ConvertAlignmentToVisemes(KeptFrom(invoked.arg, 1, <<>>))

(***************************************************************************)
(* Properties of the text-based walk and of useElevenLabsConversation.     *)
(***************************************************************************)
\* C26: generateTextBasedVisemes arms, for the character at index i of the
\* text that is not a space, one timer that is due after i * 120 ms, and no
\* other viseme timer; when the neutral reset of a text fires, no viseme
\* timer of that text is pending.
C26_FixedRateWalk ==
    [][
        /\ \A a \in aligns :
              (aligns' = aligns \ {a} /\ visemeCallbackRef) =>
                  LET armed == {t \in timers' \ timers : t.kind = "viseme"}
                  IN /\ \A i \in 0..(Len(a.text) - 1) :
                           (a.text[i + 1] # " ") =>
                               \E t \in armed : t.tl = a.tl /\ t.rem = i * CharDurationMs
                     /\ Cardinality(armed) =
                            Cardinality({i \in DOMAIN a.text : a.text[i] # " "})
                     /\ \E t \in timers' \ timers : t.kind = "reset" /\ t.tl = a.tl
        /\ (Len(calls') > Len(calls) /\ calls'[Len(calls')].by = "reset") =>
               (~\E t \in timers' : t.kind = "viseme" /\ t.tl = calls'[Len(calls')].tl)
    ]_vars

\* The two characters around a space had their callbacks, 240 ms apart, and
\* then the reset fired.
C26_Witness ==
    /\ Len(calls) = 3
    /\ calls[1].by = "viseme" /\ calls[1].start = 0
    /\ calls[2].by = "viseme" /\ calls[2].start = 2 * CharDurationMs
    /\ calls[3].by = "reset"

\* C27: a message whose source is not 'ai', or whose text is blank, causes
\* no alignment request, arms and cancels no timer and leaves
\* lastProcessedMessageRef and visemeTimeoutsRef as they are.
C27_UserSpeechIgnored ==
    [][
        \/ /\ fetches' = fetches
           /\ timers' = timers
           /\ nextId' = nextId
           /\ visemeTimeoutsRef' = visemeTimeoutsRef
           /\ lastProcessedMessageRef' = lastProcessedMessageRef
        \/ ~\E text \in ConvTexts, source \in Sources :
               /\ source # "ai" \/ Trim(text) = <<>>
               /\ OnMessage(text, source)
    ]_vars

\* Such a message was handled while a timeline plays and a request is awaited.
C27_Witness ==
    /\ obs.ignored
    /\ timers # {}
    /\ fetches # {}
    /\ lastProcessedMessageRef # <<>>

\* C28: at most one startSession call is in flight.
C28_OneStartInFlight == obs.startsInFlight <= 1

\* C29: after stopConversation made its neutral call, no timer of an
\* utterance delivered before it makes a viseme call as long as
\* startConversation is not called.
C29_SilentAfterStop ==
    [][(/\ calls # <<>>
        /\ calls[1].by = "stopConversation"
        /\ calls' # calls
        /\ calls' # <<>>
        /\ calls'[1].tl <= calls[1].tl) => calls'[1].by = "stopConversation"
    ]_vars

\* C30: every pending viseme or reset timer is in visemeTimeoutsRef, and a
\* step that empties visemeTimeoutsRef leaves no timer pending.
C30_TrackingComplete ==
    /\ [](\A t \in timers : t.id \in visemeTimeoutsRef)
    /\ [][(visemeTimeoutsRef # {} /\ visemeTimeoutsRef' = {}) => timers' = {}]_vars

\* A viseme timer and the reset timer of a timeline are pending and tracked.
C30_Witness ==
    /\ \E t \in timers : t.kind = "viseme" /\ t.id \in visemeTimeoutsRef
    /\ \E t \in timers : t.kind = "reset" /\ t.id \in visemeTimeoutsRef

\* C31: an AI message with the text of lastProcessedMessageRef leaves the
\* pending timers and visemeTimeoutsRef exactly as they were: the duplicate
\* check comes before clearAllVisemeTimeouts.
C31_DuplicateKeepsTimers ==
    [][
        \/ /\ timers' = timers
           /\ visemeTimeoutsRef' = visemeTimeoutsRef
        \/ ~\E text \in ConvTexts :
               /\ Trim(text) # <<>>
               /\ lastProcessedMessageRef = text
               /\ OnMessage(text, "ai")
    ]_vars

\* The message processed last was delivered again and the timers of its
\* timeline are pending, tracked and could have been cancelled.
C31_Witness ==
    /\ obs.redelivered
    /\ lastProcessedMessageRef = obs.turnText
    /\ lastProcessedMessageRef # <<>>
    /\ \E t \in timers : t.tl = obs.turn /\ t.id \in visemeTimeoutsRef

\* C32: lastProcessedMessageRef changes only when a new AI message is
\* processed and in startConversation and stopConversation; an AI message
\* with the text processed last is skipped (no request, no timer, the
\* reference kept) also when no viseme was scheduled for that text.
C32_LastProcessedKept ==
    [][
        /\ \/ lastProcessedMessageRef' = lastProcessedMessageRef
           \/ StopConversation
           \/ StartConversation(TRUE)
           \/ \E text \in ConvTexts :
                 /\ Trim(text) # <<>>
                 /\ text # lastProcessedMessageRef
                 /\ OnMessage(text, "ai")
        /\ \/ /\ fetches' = fetches
              /\ timers' = timers
              /\ lastProcessedMessageRef' = lastProcessedMessageRef
           \/ ~\E text \in ConvTexts :
                  /\ Trim(text) # <<>>
                  /\ lastProcessedMessageRef = text
                  /\ obs.turn \notin obs.armedFor
                  /\ OnMessage(text, "ai")
    ]_vars

\* The request of the message processed last failed, nothing was scheduled,
\* and the message was delivered again.
C32_Witness ==
    /\ obs.skipped
    /\ obs.turn \in obs.failed
    /\ obs.turn \notin obs.armedFor
    /\ lastProcessedMessageRef # <<>>

(***************************************************************************)
(* ElevenLabsAligner.getAlignmentData: one call, its WebSocket, the two    *)
(* variables of its closure, its promise and its 30 s timer.  An alignment *)
(* is named by the number of the message that carried it, 0 is null.       *)
(* alignSocket.event is the handler that ran last, alignSocket.latest the  *)
(* alignment of the latest message that had one.                           *)
(***************************************************************************)
MaxMessages == 2        \* messages the socket delivers in one call

socketVars == <<commonVars, schedVars, cleanup, convVars, simpleVars, alignerVars,
                aiHook, voiceAgent, processor, audioAnalyzer>>

\* resolve and reject act on a pending promise only.
Settle(promise, outcome) == IF promise = "pending" THEN outcome ELSE promise

KeepFirstAlignment(stored, received) == IF stored = 0 THEN received ELSE stored

\* "alignmentData = response.alignment"
StoreAlignment(stored, received) == received

\* The messages a socket delivers: a text that JSON.parse rejects, or a
\* response with or without alignment, normalizedAlignment and isFinal.
SocketMessages ==
    [parsable : BOOLEAN, alignment : BOOLEAN, normalizedAlignment : BOOLEAN,
     isFinal : BOOLEAN]

\* getAlignmentData up to the return of the promise.
GetAlignmentData ==
    /\ alignSocket.readyState = "NONE"
    /\ alignSocket' = [alignSocket EXCEPT !.readyState = "CONNECTING",
                                          !.promise = "pending",
                                          !.timeout = TRUE,
                                          !.event = "call"]
    /\ UNCHANGED socketVars

\* ws.on('open')
SocketOpen ==
    /\ alignSocket.readyState = "CONNECTING"
    /\ alignSocket' = [alignSocket EXCEPT !.readyState = "OPEN", !.event = "open"]
    /\ UNCHANGED socketVars

\* ws.on('message')
SocketMessage(msg) ==
    /\ alignSocket.readyState = "OPEN"
    /\ alignSocket.received < MaxMessages
    /\ LET k == alignSocket.received + 1
           alignmentData == IF msg.alignment
                            THEN StoreAlignment(alignSocket.alignmentData, k)
                            ELSE alignSocket.alignmentData
           normalizedAlignment == IF msg.normalizedAlignment
                                  THEN k ELSE alignSocket.normalizedAlignment
           complete == alignmentData # 0 /\ normalizedAlignment # 0
       IN alignSocket' =
             IF ~msg.parsable
             THEN [alignSocket EXCEPT !.received = k,
                                      !.promise = Settle(@, "rejected"),
                                      !.event = "unparsable"]
             ELSE IF ~msg.isFinal
             THEN [alignSocket EXCEPT !.received = k,
                                      !.alignmentData = alignmentData,
                                      !.normalizedAlignment = normalizedAlignment,
                                      !.latest = IF msg.alignment THEN k ELSE @,
                                      !.event = "chunk"]
             ELSE [alignSocket EXCEPT !.received = k,
                                      !.alignmentData = alignmentData,
                                      !.normalizedAlignment = normalizedAlignment,
                                      !.latest = IF msg.alignment THEN k ELSE @,
                                      !.promise = Settle(@, IF complete THEN "resolved"
                                                            ELSE "rejected"),
                                      !.value = IF alignSocket.promise = "pending" /\ complete
                                                THEN alignmentData ELSE @,
                                      !.readyState = "CLOSED",
                                      !.event = "final"]
    /\ UNCHANGED socketVars

\* ws.on('error'); the socket closes after an error.
SocketError ==
    /\ alignSocket.readyState \in {"CONNECTING", "OPEN"}
    /\ alignSocket' = [alignSocket EXCEPT !.readyState = "CLOSED",
                                          !.promise = Settle(@, "rejected"),
                                          !.event = "error"]
    /\ UNCHANGED socketVars

\* ws.on('close') after the server closed the connection: it logs.
SocketClose ==
    /\ alignSocket.readyState = "OPEN"
    /\ alignSocket' = [alignSocket EXCEPT !.readyState = "CLOSED", !.event = "close"]
    /\ UNCHANGED socketVars

\* The callback of "setTimeout(..., 30000)".
SocketTimeout ==
    /\ alignSocket.timeout
    /\ alignSocket' =
          IF alignSocket.readyState = "OPEN"
          THEN [alignSocket EXCEPT !.timeout = FALSE,
                                   !.readyState = "CLOSED",
                                   !.promise = Settle(@, "rejected"),
                                   !.event = "timeout"]
          ELSE [alignSocket EXCEPT !.timeout = FALSE, !.event = "timeout"]
    /\ UNCHANGED socketVars

NextSocket ==
    \/ GetAlignmentData
    \/ SocketOpen
    \/ \E msg \in SocketMessages : SocketMessage(msg)
    \/ SocketError
    \/ SocketClose
    \/ SocketTimeout

SpecSocket == InitAligner /\ [][NextSocket]_vars

\* C33: the promise of getAlignmentData settles at most once; it resolves in
\* the handler of an isFinal message only, with both alignments received and
\* with the alignment of the latest message that had one; it is settled
\* after an isFinal message, a socket error, an unparsable message and the
\* 30 s timeout.
C33_SettlesOnce ==
    /\ [][alignSocket.promise \in {"resolved", "rejected"} =>
             /\ alignSocket'.promise = alignSocket.promise
             /\ alignSocket'.value = alignSocket.value]_vars
    /\ [][(alignSocket.promise = "pending" /\ alignSocket'.promise = "resolved") =>
             alignSocket'.event = "final"]_vars
    /\ [](alignSocket.promise = "resolved" =>
             /\ alignSocket.value # 0
             /\ alignSocket.normalizedAlignment # 0
             /\ alignSocket.value = alignSocket.latest)
    /\ [](alignSocket.event \in {"final", "error", "unparsable", "timeout"} =>
             alignSocket.promise # "pending")

(***************************************************************************)
(* useElevenLabsConversationalAI: startListening, stopListening, connect   *)
(* and the handlers of its WebSocket.  One socket exists at a time.        *)
(* aiHook.closes holds, per reconnect timer, whether isListening was set   *)
(* when the socket closed; aiHook.fired, per timer that ran, that and      *)
(* whether it called connect.                                              *)
(***************************************************************************)
MaxConnects == 2        \* connect calls in one run

ReconnectDelayMs == 2000    \* "setTimeout(..., 2000)" in ws.onclose
NormalClosure == 1000       \* "event.code !== 1000"
PolicyViolation == 1008     \* "event.code !== 1008"
AbnormalClosure == 1006     \* a close code that is neither

CloseCodes == {NormalClosure, AbnormalClosure, PolicyViolation}

aiHookVars == <<schedVars, cleanup, convVars, simpleVars, alignerVars,
                alignSocket, voiceAgent, processor, audioAnalyzer>>

\* connect is "useCallback(async () => {...}, [])": the function of the first
\* render is kept, and the state its closure reads is that of the first
\* render.
ConnectClosureState == InitialAiState

\* "event.code !== 1000 && event.code !== 1008"
IsUnexpectedClose(code) == code # NormalClosure /\ code # PolicyViolation

\* connect up to "await fetch('/api/elevenlabs/signed-url')".
Connect(hook) ==
    [hook EXCEPT !.state.isProcessing = TRUE,
                 !.connecting = @ + 1,
                 !.connects = @ + 1]

\* startListening after the microphone was granted.
StartListening ==
    /\ aiHook.connects < MaxConnects
    /\ aiHook.connecting = 0
    /\ aiHook.websocket # "CONNECTING"
    /\ aiHook' =
          IF ~aiHook.state.isConnected \/ aiHook.websocket = "null"
          THEN Connect([aiHook EXCEPT !.state.isListening = TRUE])
          ELSE [aiHook EXCEPT !.state.isListening = TRUE]
    /\ UNCHANGED <<commonVars, aiHookVars>>

StopListening ==
    /\ aiHook.state.isListening
    /\ aiHook' = [aiHook EXCEPT !.state.isListening = FALSE]
    /\ UNCHANGED <<commonVars, aiHookVars>>

\* The signed URL arrived: connect creates the socket.
ConnectUrlOk ==
    /\ aiHook.connecting > 0
    /\ aiHook' = [aiHook EXCEPT !.connecting = @ - 1, !.websocket = "CONNECTING"]
    /\ UNCHANGED <<commonVars, aiHookVars>>

\* The request of the signed URL failed: the catch block of connect.
ConnectUrlFails ==
    /\ aiHook.connecting > 0
    /\ aiHook' = [aiHook EXCEPT !.connecting = @ - 1, !.state.isProcessing = FALSE]
    /\ UNCHANGED <<commonVars, aiHookVars>>

\* ws.onopen
AiSocketOpen ==
    /\ aiHook.websocket = "CONNECTING"
    /\ aiHook' = [aiHook EXCEPT !.websocket = "OPEN",
                                !.state.isConnected = TRUE,
                                !.state.isProcessing = FALSE]
    /\ UNCHANGED <<commonVars, aiHookVars>>

\* ws.onclose
AiSocketClose(code) ==
    /\ aiHook.websocket \in {"CONNECTING", "OPEN"}
    /\ IF IsUnexpectedClose(code)
       THEN /\ timers' = timers \cup
                   {Timer(nextId, ReconnectDelayMs, Neutral, 0, 0, "reconnect")}
            /\ nextId' = nextId + 1
            /\ aiHook' = [aiHook EXCEPT
                  !.websocket = "CLOSED",
                  !.state.isConnected = FALSE,
                  !.state.isListening = FALSE,
                  !.closes = @ \cup {[id |-> nextId,
                                      listening |-> aiHook.state.isListening]}]
       ELSE /\ aiHook' = [aiHook EXCEPT !.websocket = "CLOSED",
                                        !.state.isConnected = FALSE,
                                        !.state.isListening = FALSE]
            /\ UNCHANGED <<timers, nextId>>
    /\ UNCHANGED <<calls, aiHookVars>>

\* The callback of the reconnect timer: "if (state.isListening) connect()".
ReconnectTimer ==
    /\ Due # {}
    /\ LET t == NextDue
           listening == \E c \in aiHook.closes : c.id = t.id /\ c.listening
       IN /\ timers' = timers \ {t}
          /\ aiHook' =
                IF ConnectClosureState.isListening
                THEN Connect([aiHook EXCEPT
                        !.fired = @ \cup {[id |-> t.id, listening |-> listening,
                                           connect |-> TRUE]}])
                ELSE [aiHook EXCEPT
                        !.fired = @ \cup {[id |-> t.id, listening |-> listening,
                                           connect |-> FALSE]}]
    /\ UNCHANGED <<nextId, calls, aiHookVars>>

NextAiHook ==
    \/ StartListening
    \/ StopListening
    \/ ConnectUrlOk
    \/ ConnectUrlFails
    \/ AiSocketOpen
    \/ \E code \in CloseCodes : AiSocketClose(code)
    \/ ReconnectTimer
    \/ Tick

SpecAiHook == InitAligner /\ [][NextAiHook]_vars

\* C34: when the socket closes with a code other than 1000 and 1008 while
\* isListening is set, the timer armed for 2 s later calls connect.
C34_ReconnectsWhileListening ==
    \A f \in aiHook.fired : f.listening => f.connect

(***************************************************************************)
(* useElevenLabsVoiceAgent (alignment variant): the message handler of the *)
(* socket, the reset timers of generatePreciseVisemes and of               *)
(* generateFallbackVisemes, the close handler and disconnect.              *)
(***************************************************************************)
MaxAgentEvents == 3     \* events the hook handles in one run

voiceAgentVars == <<commonVars, schedVars, cleanup, convVars, simpleVars, alignerVars,
                    alignSocket, aiHook, processor, audioAnalyzer>>

\* The event is counted and remembered.
Handled(agent, event) ==
    [agent EXCEPT !.handled = @ + 1, !.previous = agent.last, !.last = event]

\* "if (!isSpeakingRef.current) { setState(isSpeaking: true);
\*  isSpeakingRef.current = true }"
SetSpeaking(agent) ==
    IF ~agent.isSpeakingRef
    THEN [agent EXCEPT !.isSpeaking = TRUE, !.isSpeakingRef = TRUE]
    ELSE agent

VoiceSetVisemeCallback ==
    /\ ~voiceAgent.visemeCallbackRef
    /\ voiceAgent' = [voiceAgent EXCEPT !.visemeCallbackRef = TRUE]
    /\ UNCHANGED voiceAgentVars

\* 'agent_response' with a text: generatePreciseVisemes runs up to its await.
VoiceAgentResponse ==
    /\ voiceAgent.handled < MaxAgentEvents
    /\ voiceAgent' =
          IF voiceAgent.visemeCallbackRef
          THEN Handled([SetSpeaking(voiceAgent) EXCEPT !.tracked = 0,
                                                       !.fetching = @ + 1],
                       "agent_response")
          ELSE Handled(voiceAgent, "agent_response")
    /\ UNCHANGED voiceAgentVars

\* The alignment arrived with visemes: the reset timer is armed and tracked.
VoiceAlignOk ==
    /\ voiceAgent.fetching > 0
    /\ voiceAgent' = [voiceAgent EXCEPT !.fetching = @ - 1, !.tracked = @ + 1]
    /\ UNCHANGED voiceAgentVars

\* No viseme or an error: generateFallbackVisemes arms a reset timer that is
\* not pushed to currentVisemeTimeouts.
VoiceAlignFails ==
    /\ voiceAgent.fetching > 0
    /\ voiceAgent' = [voiceAgent EXCEPT !.fetching = @ - 1, !.untracked = @ + 1]
    /\ UNCHANGED voiceAgentVars

\* 'audio'
VoiceAudio ==
    /\ voiceAgent.handled < MaxAgentEvents
    /\ voiceAgent' = Handled(SetSpeaking(voiceAgent), "audio")
    /\ UNCHANGED voiceAgentVars

\* 'interruption': "setState(prev => ({ ...prev, isSpeaking: false }))"
VoiceInterruption ==
    /\ voiceAgent.handled < MaxAgentEvents
    /\ voiceAgent' = Handled([voiceAgent EXCEPT !.isSpeaking = FALSE], "interruption")
    /\ UNCHANGED voiceAgentVars

\* A reset timer runs; the one of generatePreciseVisemes also empties
\* currentVisemeTimeouts.
VoiceResetTimer(isTracked) ==
    /\ IF isTracked THEN voiceAgent.tracked > 0 ELSE voiceAgent.untracked > 0
    /\ voiceAgent' =
          Handled([voiceAgent EXCEPT !.isSpeaking = FALSE,
                                     !.isSpeakingRef = FALSE,
                                     !.tracked = IF isTracked THEN 0 ELSE @,
                                     !.untracked = IF isTracked THEN @ ELSE @ - 1],
                  "reset")
    /\ UNCHANGED voiceAgentVars

\* ws 'close'
VoiceSocketClose ==
    /\ voiceAgent.handled < MaxAgentEvents
    /\ voiceAgent' = Handled([voiceAgent EXCEPT !.isSpeaking = FALSE], "close")
    /\ UNCHANGED voiceAgentVars

\* disconnect
VoiceDisconnect ==
    /\ voiceAgent.handled < MaxAgentEvents
    /\ voiceAgent' = Handled([voiceAgent EXCEPT !.isSpeaking = FALSE,
                                                !.isSpeakingRef = FALSE,
                                                !.tracked = 0],
                             "disconnect")
    /\ UNCHANGED voiceAgentVars

NextVoiceAgent ==
    \/ VoiceSetVisemeCallback
    \/ VoiceAgentResponse
    \/ VoiceAlignOk
    \/ VoiceAlignFails
    \/ VoiceAudio
    \/ VoiceInterruption
    \/ \E isTracked \in BOOLEAN : VoiceResetTimer(isTracked)
    \/ VoiceSocketClose
    \/ VoiceDisconnect

SpecVoiceAgent == InitAligner /\ [][NextVoiceAgent]_vars

\* C35: after each handled event isSpeakingRef.current equals isSpeaking of
\* the state, and after an 'interruption' followed by 'audio' isSpeaking is
\* true.
C35_RefMatchesState ==
    /\ voiceAgent.isSpeakingRef = voiceAgent.isSpeaking
    /\ (voiceAgent.previous = "interruption" /\ voiceAgent.last = "audio") =>
           voiceAgent.isSpeaking

(***************************************************************************)
(* ForcedAlignmentProcessor: addAlignmentData, processAlignment and        *)
(* generateSimpleAlignment.  Times are exact quotients, in seconds.  An    *)
(* entry of the queue has a transcript (a sequence of characters), the     *)
(* length of its audio buffer in bytes, and is malformed when it has no    *)
(* audio buffer.  processor.input and processor.returned are <<>> for none *)
(* and null and <<x>> for the value x.                                     *)
(***************************************************************************)
MaxQueue == 2           \* entries in alignmentQueue
MaxTranscriptLen == 2   \* longest transcript, in characters

SampleRate == 16000     \* "const sampleRate = 16000"
BytesPerSample == 2     \* "const bytesPerSample = 2"
OneSecondBytes == 32000 \* an audio buffer of one second

processorVars == <<commonVars, schedVars, cleanup, convVars, simpleVars, alignerVars,
                   alignSocket, aiHook, voiceAgent, audioAnalyzer>>

\* "transcript.toLowerCase().split(/\s+/)": the pieces between the runs of
\* spaces, the empty pieces at both ends included.
RECURSIVE JsSplitFrom(_, _, _, _)
JsSplitFrom(text, i, words, word) ==
    IF i > Len(text) THEN Append(words, word)
    ELSE IF text[i] = " "
         THEN IF i > 1 /\ text[i - 1] = " "
              THEN JsSplitFrom(text, i + 1, words, word)
              ELSE JsSplitFrom(text, i + 1, Append(words, word), <<>>)
         ELSE JsSplitFrom(text, i + 1, words, Append(word, ToLowerCase(text[i])))

JsSplit(text) == JsSplitFrom(text, 1, <<>>, <<>>)

\* estimateAudioDuration
EstimateAudioDuration(bytes) == FracOver(Frac(bytes, BytesPerSample), SampleRate)

\* "charMap[char] || char"
ProcessorCharPhoneme(char) ==
    CASE char = "a" -> "ae"
      [] char = "e" -> "eh"
      [] char = "i" -> "ih"
      [] char = "o" -> "ao"
      [] char = "u" -> "ah"
      [] char \in {"c", "q", "x"} -> "k"
      [] char = "j" -> "jh"
      [] OTHER -> char

\* wordToPhonemes: the entries of phonemeMap of up to two letters (no longer
\* entry is spelled with the letters of ProcessorChars), then the character
\* mapping.
ProcessorWordToPhonemes(word) ==
    CASE word = <<"i">> -> <<"ay">>
      [] word = <<"i", "n">> -> <<"ih", "n">>
      [] word = <<"i", "s">> -> <<"ih", "z">>
      [] word = <<"a", "m">> -> <<"ae", "m">>
      [] word = <<"t", "o">> -> <<"t", "uw">>
      [] word = <<"b", "e">> -> <<"b", "iy">>
      [] word = <<"d", "o">> -> <<"d", "uw">>
      [] word = <<"g", "o">> -> <<"g", "ow">>
      [] word = <<"u", "p">> -> <<"ah", "p">>
      [] word = <<"o", "n">> -> <<"ao", "n">>
      [] word = <<"n", "o">> -> <<"n", "ow">>
      [] OTHER -> [i \in DOMAIN word |-> ProcessorCharPhoneme(word[i])]

\* "phonemeToVisemeMap[phoneme] || 0"
ProcessorPhonemeToViseme(phoneme) ==
    CASE phoneme \in {"f", "v"} -> 1
      [] phoneme \in {"b", "p", "m"} -> 2
      [] phoneme \in {"ao", "ow", "o", "k", "g", "ng"} -> 3
      [] phoneme \in {"uw", "uh", "u", "w"} -> 4
      [] phoneme \in {"eh", "ey", "e", "h", "ih", "iy"} -> 5
      [] phoneme \in {"ae", "ay", "aa", "a", "ah", "y"} -> 6
      [] phoneme \in {"ch", "jh", "sh", "zh"} -> 7
      [] phoneme \in {"s", "z", "th", "dh", "t", "d", "n"} -> 8
      [] phoneme \in {"l", "r", "er"} -> 9
      [] OTHER -> Neutral

\* The phonemes pushed for one word that starts at currentTime.
WordPhonemeResults(wordPhonemes, currentTime, wordDuration) ==
    [j \in DOMAIN wordPhonemes |->
        [phoneme |-> wordPhonemes[j],
         start |-> FracSum(currentTime,
                           FracTimes(j - 1, FracOver(wordDuration, Len(wordPhonemes)))),
         end |-> FracSum(currentTime,
                         FracTimes(j, FracOver(wordDuration, Len(wordPhonemes)))),
         viseme |-> ProcessorPhonemeToViseme(wordPhonemes[j])]]

\* "words.forEach" from word k on; currentTime moves on by the phonemes only.
RECURSIVE WordResultsFrom(_, _, _, _)
WordResultsFrom(words, k, currentTime, wordDuration) ==
    IF k > Len(words) THEN <<>>
    ELSE LET wordPhonemes == ProcessorWordToPhonemes(words[k])
             results == WordPhonemeResults(wordPhonemes, currentTime, wordDuration)
             after == IF Len(wordPhonemes) = 0 THEN currentTime
                      ELSE results[Len(results)].end
         IN <<[word |-> words[k],
               start |-> currentTime,
               end |-> FracSum(currentTime, wordDuration),
               phonemes |-> results]>>
            \o WordResultsFrom(words, k + 1, after, wordDuration)

RECURSIVE AllPhonemes(_)
AllPhonemes(wordResults) ==
    IF wordResults = <<>> THEN <<>>
    ELSE Head(wordResults).phonemes \o AllPhonemes(Tail(wordResults))

GenerateSimpleAlignment(data) ==
    LET words == JsSplit(data.transcript)
        totalDuration == EstimateAudioDuration(data.bytes)
        wordDuration == FracOver(totalDuration, Len(words))
        wordResults == WordResultsFrom(words, 1, Frac(0, 1), wordDuration)
    IN [phonemes |-> AllPhonemes(wordResults), words |-> wordResults]

\* "buffer.length" of estimateAudioDuration throws when there is no buffer.
SimpleAlignmentThrows(data) == data.malformed

OldestData(alignmentQueue) == alignmentQueue[1]

\* "this.alignmentQueue[this.alignmentQueue.length - 1]"
LatestData(alignmentQueue) == alignmentQueue[Len(alignmentQueue)]

ProcessorChars == {"i", "n", " "}

AlignmentEntries ==
    {[transcript |-> <<>>, bytes |-> OneSecondBytes, malformed |-> TRUE]} \cup
    UNION {{[transcript |-> t, bytes |-> OneSecondBytes, malformed |-> FALSE] :
               t \in [1..n -> ProcessorChars]} : n \in 0..MaxTranscriptLen}

AddAlignmentData(data) ==
    /\ Len(processor.alignmentQueue) < MaxQueue
    /\ processor' = [processor EXCEPT !.alignmentQueue = Append(@, data),
                                      !.last = "addAlignmentData",
                                      !.pending = Len(processor.alignmentQueue),
                                      !.input = <<>>, !.returned = <<>>]
    /\ UNCHANGED processorVars

\* processAlignment awaits nothing: the call runs to its return in one step,
\* the finally block included.
ProcessAlignment ==
    /\ processor' =
          [pending |-> Len(processor.alignmentQueue)] @@
          IF Len(processor.alignmentQueue) = 0 \/ processor.isProcessing
          THEN [processor EXCEPT !.last = "processAlignment",
                                 !.input = <<>>, !.returned = <<>>]
          ELSE LET latestData == LatestData(processor.alignmentQueue)
               IN IF SimpleAlignmentThrows(latestData)
                  THEN [processor EXCEPT !.last = "processAlignment",
                                         !.input = <<latestData>>,
                                         !.returned = <<>>,
                                         !.isProcessing = FALSE]
                  ELSE [processor EXCEPT !.last = "processAlignment",
                                         !.input = <<latestData>>,
                                         !.returned = <<GenerateSimpleAlignment(latestData)>>,
                                         !.alignmentQueue = <<>>,
                                         !.isProcessing = FALSE]
    /\ UNCHANGED processorVars

NextProcessor ==
    \/ \E data \in AlignmentEntries : AddAlignmentData(data)
    \/ ProcessAlignment

SpecProcessor == InitAligner /\ [][NextProcessor]_vars

C37_WordsContiguous ==
    (processor.last = "processAlignment" /\ processor.returned # <<>>) =>
        LET words == processor.returned[1].words
            n == Len(words)
        IN /\ n >= 1
           /\ FracEq(words[1].start, Frac(0, 1))
           /\ FracEq(words[n].end, EstimateAudioDuration(processor.input[1].bytes))
           /\ \A k \in 1..(n - 1) : FracEq(words[k + 1].start, words[k].end)
           /\ \A k \in 1..n :
                 LET phonemes == words[k].phonemes
                     m == Len(phonemes)
                 IN /\ m >= 1
                    /\ FracEq(phonemes[1].start, words[k].start)
                    /\ FracEq(phonemes[m].end, words[k].end)
                    /\ \A j \in 1..(m - 1) :
                          FracEq(phonemes[j + 1].start, phonemes[j].end)

(***************************************************************************)
(* AudioVisemeAnalyzer: startAnalysis, analyze (once per animation frame)  *)
(* and stopAnalysis.  A frame of audio is given by the level of its low,   *)
(* middle and high bins, each band taken as uniform.                       *)
(***************************************************************************)
MaxSilence == 7         \* silent frames counted in a row
MaxFrames == 2          \* animation frames requested and not yet run

BufferLength == 128     \* frequencyBinCount of "fftSize = 256"
LowBoundary == 25       \* "Math.floor(bufferLength * 0.2)"
MidBoundary == 76       \* "Math.floor(bufferLength * 0.6)"
SilenceVolume == 10     \* "avgVolume < 10"
SilenceFrames == 5      \* "this.silenceCounter > 5"
LoudVolume == 100       \* "avgVolume > 100"
BilabialVolume == 120   \* "avgVolume > 120"
MiddleVolume == 80      \* "avgVolume > 80"

audioAnalyzerVars == <<commonVars, schedVars, cleanup, convVars, simpleVars, alignerVars,
                       alignSocket, aiHook, voiceAgent, processor>>

BandLevels == {0, 60, 120, 240}

AudioFrames == [low : BandLevels, mid : BandLevels, high : BandLevels]

\* "sum" of analyze
FrameSum(frame) ==
    LowBoundary * frame.low + (MidBoundary - LowBoundary) * frame.mid
        + (BufferLength - MidBoundary) * frame.high

\* "avgVolume < 10"
IsSilence(frame) == FrameSum(frame) < SilenceVolume * BufferLength

\* "avgVolume > level"
Louder(frame, level) == FrameSum(frame) > level * BufferLength

\* The viseme analyze chooses for a frame, with the silence counter as it is
\* after counting the frame.
FrameViseme(frame, silenceCounter, lastViseme) ==
    IF IsSilence(frame)
    THEN IF silenceCounter > SilenceFrames THEN 0 ELSE lastViseme
    ELSE IF 10 * frame.low > 15 * frame.mid /\ 10 * frame.low > 15 * frame.high
         THEN IF Louder(frame, LoudVolume) THEN 4 ELSE 5
         ELSE IF 10 * frame.mid > 12 * frame.low /\ 10 * frame.mid > 12 * frame.high
              THEN IF Louder(frame, LoudVolume) THEN 1 ELSE 2
              ELSE IF 10 * frame.high > 12 * frame.low /\ 10 * frame.high > 12 * frame.mid
                   THEN IF Louder(frame, LoudVolume) THEN 9 ELSE 8
                   ELSE IF Louder(frame, BilabialVolume) THEN 6
                        ELSE IF Louder(frame, MiddleVolume) THEN 3 ELSE 7

\* "this.onVisemeChange?.(viseme)"
Notify(analyzer, viseme) ==
    [analyzer EXCEPT !.notified = <<viseme>>,
                     !.repeated = (analyzer.notified = <<viseme>>)]

\* "if (viseme !== this.lastViseme)"
NotifyChange(analyzer, viseme) ==
    IF viseme # analyzer.lastViseme
    THEN [Notify(analyzer, viseme) EXCEPT !.lastViseme = viseme]
    ELSE analyzer

\* analyze from line 41 on: the analyzer after one frame of audio, the next
\* animation frame requested.
Analyzed(analyzer, frame) ==
    LET silenceCounter == IF IsSilence(frame) THEN analyzer.silenceCounter + 1 ELSE 0
        viseme == FrameViseme(frame, silenceCounter, analyzer.lastViseme)
    IN [NotifyChange([analyzer EXCEPT !.silenceCounter = silenceCounter], viseme)
           EXCEPT !.animationFrame = "pending",
                  !.pending = @ + 1]

FrameAllowed(frame) ==
    IsSilence(frame) => audioAnalyzer.silenceCounter < MaxSilence

\* startAnalysis awaits nothing and ends with a call of analyze.
StartAnalysis(frame) ==
    /\ audioAnalyzer.pending < MaxFrames
    /\ FrameAllowed(frame)
    /\ audioAnalyzer' =
          [Analyzed([audioAnalyzer EXCEPT !.analyser = TRUE, !.isAnalyzing = TRUE], frame)
              EXCEPT !.last = "startAnalysis"]
    /\ UNCHANGED audioAnalyzerVars

\* The oldest requested animation frame runs analyze.
Analyze(frame) ==
    /\ audioAnalyzer.pending > 0
    /\ LET ran == [audioAnalyzer EXCEPT
                      !.pending = @ - 1,
                      !.animationFrame = IF @ = "pending" /\ audioAnalyzer.pending = 1
                                         THEN "stale" ELSE @,
                      !.last = "analyze"]
       IN IF ~audioAnalyzer.isAnalyzing \/ ~audioAnalyzer.analyser
          THEN audioAnalyzer' = ran
          ELSE /\ FrameAllowed(frame)
               /\ audioAnalyzer' = Analyzed(ran, frame)
    /\ UNCHANGED audioAnalyzerVars

StopAnalysis ==
    /\ audioAnalyzer' =
          [Notify([audioAnalyzer EXCEPT
                      !.isAnalyzing = FALSE,
                      !.pending = IF audioAnalyzer.animationFrame = "pending"
                                  THEN @ - 1 ELSE @,
                      !.animationFrame = "null",
                      !.analyser = FALSE], 0)
              EXCEPT !.last = "stopAnalysis"]
    /\ UNCHANGED audioAnalyzerVars

NextAudioAnalyzer ==
    \/ \E frame \in AudioFrames : StartAnalysis(frame)
    \/ \E frame \in AudioFrames : Analyze(frame)
    \/ StopAnalysis

SpecAudioAnalyzer == InitAligner /\ [][NextAudioAnalyzer]_vars

\* C38: after startAnalysis, after each analyze frame and after stopAnalysis
\* the viseme passed last to onVisemeChange is the analyzer's lastViseme,
\* and it differs from the viseme passed before it.
C38_ConsumerInStep ==
    (audioAnalyzer.last # "none" /\ audioAnalyzer.notified # <<>>) =>
        /\ audioAnalyzer.notified = <<audioAnalyzer.lastViseme>>
        /\ ~audioAnalyzer.repeated

====
